---- MODULE Spec2Model ----
(***************************************************************************)
(* Model of pdf_convert.py: PDFConverter._extract_page_text_simple (the    *)
(* paragraph reconstructor, HTML and plain-text renderings) and the page   *)
(* loops of convert_to_html, convert_to_text and convert_to_html_chunks.   *)
(*                                                                         *)
(* Strings are sequences of one-character strings.  A bounding box is the  *)
(* 4-tuple <<x0, y0, x1, y1>> (Python bbox[0..3] is bbox[1..4] here).      *)
(* The float para_gap_factor is the rational <<num, den>>, den > 0.        *)
(* Only the paragraph-preserving path (preserve_paragraphs=True) is        *)
(* modelled.                                                               *)
(***************************************************************************)
EXTENDS Integers, Sequences, FiniteSets, TLC

VARIABLES
    pdf_file,        \* input: the decoded document, a sequence of pages
    args,            \* input: the command line (format, chunk sizes, thresholds)
    doc,             \* PDFConverter.doc: "None" or "open"
    total_pages,     \* PDFConverter.total_pages
    pc,              \* position of the program
    chunk_idx,       \* convert_to_html_chunks: index of the output file
    i,               \* start page of the current memory batch
    page_num,        \* page being extracted / written (0-based)
    files,           \* output files: [content, flushed, closed]
    bi,              \* _extract_page_text_simple: index of the current block
    li,              \* index of the current line in the block
    para_text,       \* in-progress paragraph: accumulated line texts
    prev_y1,         \* bottom of the previously processed line
    para_start,      \* no line of the block processed yet
    processed_text,  \* HTML rendering built so far (sequence of elements)
    text_lines,      \* plain-text rendering built so far (sequence of lines)
    result,          \* value returned by the last call of the extractor
    raised,          \* the last call ended in its except clause
    para_src,        \* history: source <<block, line>> of each para_text entry
    emitted,         \* history: [kind, src] of every element emitted for the page
    exit_code,       \* exit status of the process: "running", 0 or 1
    failed,          \* history: the pages whose extraction raised
    env,             \* input: the program that runs and the state of its files
    message,         \* the last diagnostic the program printed
    fault,           \* history: the file operation that failed, or "none"
    part             \* extract_part1 / extract_part2: the locals of the function run

vars == <<pdf_file, args, doc, total_pages, pc, chunk_idx, i, page_num, files,
          bi, li, para_text, prev_y1, para_start, processed_text, text_lines,
          result, raised, para_src, emitted, exit_code, failed, env, message,
          fault, part>>

---------------------------------------------------------------------------
(* Bounds of the checked inputs *)

MaxLines == 2        \* lines per block, all line kinds
MaxCoreLines == 3    \* lines per block, core line kinds
MaxBlocks == 2       \* blocks per page
MaxPages == 2        \* pages per document
LongLines == 250     \* lines of the long non-breaking block

(* Program constants *)

MaxParaLines == 100                       \* the hard cap on accumulated lines
DefaultGapFactor == <<3, 2>>              \* 1.5
DefaultIndentThreshold == 10
Punctuation == {".", "?", "!", ":", ";"}
ImagePlaceholder == <<"[", "I", "m", "a", "g", "e", "]">>

---------------------------------------------------------------------------
(* String helpers: Python str and html.escape *)

Last(s) == s[Len(s)]
Front(s) == SubSeq(s, 1, Len(s) - 1)

RECURSIVE ConcatRange(_, _, _)
\* ss[lo] \o ... \o ss[hi], by halves
ConcatRange(ss, lo, hi) ==
    IF lo > hi THEN <<>>
    ELSE IF lo = hi THEN ss[lo]
    ELSE LET mid == (lo + hi) \div 2
         IN ConcatRange(ss, lo, mid) \o ConcatRange(ss, mid + 1, hi)

\* "".join / repeated += over a sequence of strings
Concat(ss) == ConcatRange(ss, 1, Len(ss))

RECURSIVE LStrip(_)
LStrip(s) == IF s # <<>> /\ Head(s) = " " THEN LStrip(Tail(s)) ELSE s

RECURSIVE RStrip(_)
RStrip(s) == IF s # <<>> /\ Last(s) = " " THEN RStrip(Front(s)) ELSE s

\* str.strip()
Strip(s) == RStrip(LStrip(s))

\* sep.join(ss)
JoinWith(sep, ss) ==
    Concat([k \in 1..Len(ss) |-> IF k = 1 THEN ss[k] ELSE sep \o ss[k]])

\* " ".join(para_text)
Join(ss) == JoinWith(<<" ">>, ss)

EscapeChar(c) ==
    CASE c = "&" -> <<"&", "a", "m", "p", ";">>
      [] c = "<" -> <<"&", "l", "t", ";">>
      [] c = ">" -> <<"&", "g", "t", ";">>
      [] c = "\"" -> <<"&", "q", "u", "o", "t", ";">>
      [] c = "'" -> <<"&", "#", "x", "2", "7", ";">>
      [] OTHER   -> <<c>>

\* html.escape
Escape(s) == Concat([k \in 1..Len(s) |-> EscapeChar(s[k])])

EndsWithHyphen(s) == s # <<>> /\ Last(s) = "-"

Min(a, b) == IF a < b THEN a ELSE b

---------------------------------------------------------------------------
(* The decoded page: page.get_text("dict", flags=0) *)

\* line["spans"] concatenated and stripped
LineText(line) == Strip(Concat(line.spans))

IsTextBlock(block) == block.type = 0
IsImageBlock(block) == block.type = 1

\* line["bbox"] exists: the decoder supplied the line's geometry
HasBBox(line) == "bbox" \in DOMAIN line

\* One iteration of the line loop raises KeyError: the line is not skipped
\* and line["bbox"] is read (at the latest for prev_y1) but missing, or the
\* boundary test reads the missing bbox of the block's first line
LineKeyError(st, block, k) ==
    LET line == block.lines[k]
    IN /\ LineText(line) # <<>>
       /\ \/ ~HasBBox(line)
          \/ ~st.para_start /\ st.prev_y1 > 0 /\ ~HasBBox(block.lines[1])

\* the abbreviations of re.search(r'(e\.g\.|i\.e\.|etc\.)$', ...), an exception
\* that exists in extract_part1.auto_merge_text_chunks only
Abbreviations ==
    {<<"e", ".", "g", ".">>, <<"i", ".", "e", ".">>, <<"e", "t", "c", ".">>}

EndsWith(t, suf) ==
    Len(t) >= Len(suf) /\ SubSeq(t, Len(t) - Len(suf) + 1, Len(t)) = suf

EndsAbbrev(t) == \E a \in Abbreviations : EndsWith(t, a)

\* Mutant: the HTML path does not split after an abbreviation
NewParaHtmlAbbrev(line, block, st, gap_factor, indent_threshold) ==
    IF ~st.para_start /\ st.prev_y1 > 0
    THEN LET y_gap == line.bbox[2] - st.prev_y1
             line_height == line.bbox[4] - line.bbox[2]
             x_indent == line.bbox[1] - block.lines[1].bbox[1]
         IN \/ y_gap * gap_factor[2] > gap_factor[1] * line_height
            \/ x_indent > indent_threshold
            \/ /\ Len(st.para_text) > 0
               /\ Last(st.para_text) # <<>>
               /\ Last(Last(st.para_text)) \in Punctuation
               /\ ~EndsAbbrev(Last(st.para_text))
    ELSE FALSE

\* Mutant: the gap comparison is reversed
NewParaGapReversed(line, block, st, gap_factor, indent_threshold) ==
    IF ~st.para_start /\ st.prev_y1 > 0
    THEN LET y_gap == line.bbox[2] - st.prev_y1
             line_height == line.bbox[4] - line.bbox[2]
             x_indent == line.bbox[1] - block.lines[1].bbox[1]
         IN \/ y_gap * gap_factor[2] < gap_factor[1] * line_height
            \/ x_indent > indent_threshold
            \/ /\ Len(st.para_text) > 0
               /\ Last(st.para_text) # <<>>
               /\ Last(Last(st.para_text)) \in Punctuation
    ELSE FALSE

\* One iteration's boundary test of the HTML path
NewParaHtml(line, block, st, gap_factor, indent_threshold) ==
    IF ~st.para_start /\ st.prev_y1 > 0
    THEN LET y_gap == line.bbox[2] - st.prev_y1
             line_height == line.bbox[4] - line.bbox[2]
             x_indent == line.bbox[1] - block.lines[1].bbox[1]
         IN \/ y_gap * gap_factor[2] > gap_factor[1] * line_height
            \/ x_indent > indent_threshold
            \/ /\ Len(st.para_text) > 0
               /\ Last(st.para_text) # <<>>
               /\ Last(Last(st.para_text)) \in Punctuation
    ELSE FALSE

\* Mutant: the plain-text path decides by something else than the HTML path
\* (it leaves the indent condition out)
NewParaTextNoIndent(line, block, st, gap_factor, indent_threshold) ==
    IF ~st.para_start /\ st.prev_y1 > 0
    THEN LET y_gap == line.bbox[2] - st.prev_y1
             line_height == line.bbox[4] - line.bbox[2]
         IN \/ y_gap * gap_factor[2] > gap_factor[1] * line_height
            \/ /\ Len(st.para_text) > 0
               /\ Last(st.para_text) # <<>>
               /\ Last(Last(st.para_text)) \in Punctuation
    ELSE FALSE

\* One iteration's boundary test of the plain-text path
NewParaText(line, block, st, gap_factor, indent_threshold) ==
    IF ~st.para_start /\ st.prev_y1 > 0
    THEN LET y_gap == line.bbox[2] - st.prev_y1
             line_height == line.bbox[4] - line.bbox[2]
             x_indent == line.bbox[1] - block.lines[1].bbox[1]
         IN \/ y_gap * gap_factor[2] > gap_factor[1] * line_height
            \/ x_indent > indent_threshold
            \/ /\ Len(st.para_text) > 0
               /\ Last(st.para_text) # <<>>
               /\ Last(Last(st.para_text)) \in Punctuation
    ELSE FALSE

\* What the "continue current paragraph" branch appends (HTML path)
ContinueHtml(acc, line_text) ==
    IF acc # <<>>
    THEN IF EndsWithHyphen(line_text)
         THEN Append(acc, Front(line_text))
         ELSE Append(acc, line_text)
    ELSE Append(acc, line_text)

\* Mutant: the plain-text path keeps the hyphen
ContinueKeepHyphen(acc, line_text) == Append(acc, line_text)

\* What the "continue current paragraph" branch appends (plain-text path)
ContinueText(acc, line_text) ==
    IF acc # <<>>
    THEN IF EndsWithHyphen(line_text)
         THEN Append(acc, Front(line_text))
         ELSE Append(acc, line_text)
    ELSE Append(acc, line_text)

\* Mutant: the forced split never happens
TooLongNever(acc) == FALSE

\* Mutant: the forced split comes one line early
TooLongAtCap(acc) == Len(acc) >= MaxParaLines

\* The forced split tests
TooLongHtml(acc) == Len(acc) > MaxParaLines
TooLongText(acc) == Len(acc) > MaxParaLines

\* f'<p>{html.escape(" ".join(para_text))}</p>\n'
HtmlParagraph(acc) == [tag |-> "p", text |-> Escape(Join(acc)), number |-> 0]

\* f'<div class="image">[Image]</div>\n'
HtmlImage == [tag |-> "div.image", text |-> ImagePlaceholder, number |-> 0]

\* f'<div class="page" id="page_{page_num+1}" data-page-number="{page_num+1}">\n'
HtmlPageOpen(n) == [tag |-> "div.page", text |-> <<>>, number |-> n + 1]

\* '</div>\n'
HtmlPageClose == [tag |-> "/div", text |-> <<>>, number |-> 0]

\* Mutant: the in-progress paragraph survives into the next block
BlockStartKeep(st) == [st EXCEPT !.prev_y1 = -1, !.para_start = TRUE]

\* Mutant: the reconstruction state is not reset between blocks
BlockStartNoReset(st) == st

\* The reconstruction state at the start of a text block
BlockStart(st) ==
    [st EXCEPT !.para_text = <<>>, !.prev_y1 = -1, !.para_start = TRUE,
               !.para_src = <<>>]

\* HTML path: emit the in-progress paragraph
EmitHtml(st) ==
    [st EXCEPT !.processed_text = Append(@, HtmlParagraph(st.para_text)),
               !.emitted = Append(@, [kind |-> "p", src |-> st.para_src])]

\* Plain-text path: emit the in-progress paragraph; sep: followed by ""
EmitText(st, sep) ==
    [st EXCEPT !.text_lines = IF sep THEN @ \o <<Join(st.para_text), <<>>>>
                              ELSE Append(@, Join(st.para_text)),
               !.emitted = Append(@, [kind |-> "p", src |-> st.para_src])]

\* HTML path: the body of "for line in block['lines']" for line k of block b
HtmlLine(st, block, b, k, gap_factor, indent_threshold) ==
    LET line == block.lines[k]
        line_text == LineText(line)
    IN IF line_text = <<>> THEN st
       ELSE LET new_para == NewParaHtml(line, block, st, gap_factor, indent_threshold)
                s1 == IF new_para /\ st.para_text # <<>>
                      THEN [EmitHtml(st) EXCEPT !.para_text = <<line_text>>,
                                                !.para_src = << <<b, k>> >>]
                      ELSE [st EXCEPT !.para_text = ContinueHtml(@, line_text),
                                      !.para_src = Append(@, <<b, k>>)]
                s2 == [s1 EXCEPT !.prev_y1 = line.bbox[4], !.para_start = FALSE]
            IN IF TooLongHtml(s2.para_text)
               THEN [EmitHtml(s2) EXCEPT !.para_text = <<>>, !.para_src = <<>>]
               ELSE s2

\* Plain-text path: the body of "for line in block['lines']"
TextLine(st, block, b, k, gap_factor, indent_threshold) ==
    LET line == block.lines[k]
        line_text == LineText(line)
    IN IF line_text = <<>> THEN st
       ELSE LET new_para == NewParaText(line, block, st, gap_factor, indent_threshold)
                s1 == IF new_para /\ st.para_text # <<>>
                      THEN [EmitText(st, TRUE) EXCEPT !.para_text = <<line_text>>,
                                                      !.para_src = << <<b, k>> >>]
                      ELSE [st EXCEPT !.para_text = ContinueText(@, line_text),
                                      !.para_src = Append(@, <<b, k>>)]
                s2 == [s1 EXCEPT !.prev_y1 = line.bbox[4], !.para_start = FALSE]
            IN IF TooLongText(s2.para_text)
               THEN [EmitText(s2, FALSE) EXCEPT !.para_text = <<>>, !.para_src = <<>>]
               ELSE s2

\* Mutant: the last paragraph of a block is never emitted
BlockEndLost(st) == st

\* "Process the last paragraph": after the line loop of a text block
HtmlBlockEnd(st) == IF st.para_text # <<>> THEN EmitHtml(st) ELSE st
TextBlockEnd(st) == IF st.para_text # <<>> THEN EmitText(st, FALSE) ELSE st

\* Mutant: the placeholder is accumulated like a line of text
ImageBlockMerged(st, b) ==
    [st EXCEPT !.para_text = Append(@, ImagePlaceholder),
               !.para_src = Append(@, <<b, 0>>)]

\* The image block branches
HtmlImageBlock(st, b) ==
    [st EXCEPT !.processed_text = Append(@, HtmlImage),
               !.emitted = Append(@, [kind |-> "img", src |-> << <<b, 0>> >>])]
TextImageBlock(st, b) ==
    [st EXCEPT !.text_lines = @ \o <<ImagePlaceholder, <<>>>>,
               !.emitted = Append(@, [kind |-> "img", src |-> << <<b, 0>> >>])]

\* "\n".join(text_lines)
JoinLines(lines) == JoinWith(<<"\n">>, lines)

---------------------------------------------------------------------------
(* The checked inputs *)

SeqsUpTo(S, n) == UNION {[1..k -> S] : k \in 0..n}

Box(x0, y0, y1) == <<x0, y0, x0 + 50, y1>>

SpansPlain == << <<" ", "a">>, <<"&">> >>     \* " a" + "&": text "a&"
SpansPunct == << <<"b", ".">> >>              \* "b."
SpansHyphen == << <<"c", "-">> >>             \* "c-"
SpansBlank == << <<" ">> >>                   \* empty after strip
SpansPunctHyphen == << <<"d", ".", "-">> >>   \* "d.-": "d." once the hyphen is cut
SpansDash == << <<"-">> >>                    \* "-": "" once the hyphen is cut
SpansEg == << <<"e", ".">>, <<"g", ".">> >>   \* "e.g."
SpansIe == << <<"i", ".", "e", ".">> >>       \* "i.e."
SpansEtc == << <<"e", "t", "c", ".">> >>      \* "etc."

BoxBase == Box(0, 1, 3)
BoxFar == Box(0, 7, 9)          \* 4 below the bottom of BoxBase, height 2
BoxIndent == Box(11, 1, 3)
BoxAbove == Box(0, -2, 0)       \* wholly above the page: bottom 0

SpanKinds == {SpansPlain, SpansPunct, SpansHyphen, SpansBlank}
LineKinds == [spans : SpanKinds, bbox : {BoxBase, BoxFar, BoxIndent, BoxAbove}]
CoreKinds == [spans : SpanKinds, bbox : {BoxBase}]
                 \cup [spans : {SpansPlain}, bbox : {BoxFar, BoxIndent}]

EdgeKinds == [spans : {SpansPlain, SpansPunctHyphen, SpansDash}, bbox : {BoxBase}]

AbbrevKinds == [spans : {SpansPlain, SpansEg, SpansIe, SpansEtc}, bbox : {BoxBase}]

PlainLine == [spans |-> SpansPlain, bbox |-> BoxBase]
PunctLine == [spans |-> SpansPunct, bbox |-> BoxBase]
HyphenLine == [spans |-> SpansHyphen, bbox |-> BoxBase]
IndentLine == [spans |-> SpansPlain, bbox |-> BoxIndent]
FarLine == [spans |-> SpansPlain, bbox |-> BoxFar]

TextBlockOf(lines) == [type |-> 0, lines |-> lines]
ImageBlockOf == [type |-> 1, lines |-> <<>>]

RichBlocks == {TextBlockOf(l) : l \in SeqsUpTo(LineKinds, MaxLines)
                                      \cup SeqsUpTo(CoreKinds, MaxCoreLines)
                                      \cup SeqsUpTo(EdgeKinds, MaxCoreLines)
                                      \cup SeqsUpTo(AbbrevKinds, MaxCoreLines)}
SmallBlocks == {ImageBlockOf, TextBlockOf(<<PlainLine>>),
                TextBlockOf(<<PunctLine, PlainLine>>),
                TextBlockOf(<<PlainLine, HyphenLine>>)}
LongBlocks == {TextBlockOf([k \in 1..n |-> l]) :
                   n \in {MaxParaLines, MaxParaLines + 1, LongLines},
                   l \in {PlainLine, HyphenLine}}

\* long blocks with a boundary candidate at line 2 and one right after the
\* place where the cap splits
MixedLongBlocks ==
    {TextBlockOf([k \in 1..(MaxParaLines + 3) |->
                     IF k = 2 THEN a
                     ELSE IF k = MaxParaLines + 3 THEN z ELSE PlainLine]) :
        a \in {PlainLine, IndentLine}, z \in {PlainLine, FarLine}}

PageOf(blocks, faulty) == [blocks |-> blocks, faulty |-> faulty]

RichPages == {PageOf(<<b>>, FALSE) : b \in RichBlocks}
BlockPages == {PageOf(bs, FALSE) : bs \in SeqsUpTo(SmallBlocks, MaxBlocks)}
LongPages == {PageOf(<<b>>, FALSE) : b \in LongBlocks \cup MixedLongBlocks}
DocPages == {PageOf(<<TextBlockOf(<<PlainLine>>)>>, FALSE),
             PageOf(<<TextBlockOf(<<PlainLine>>)>>, TRUE),
             PageOf(<<ImageBlockOf, TextBlockOf(<<PunctLine, PlainLine>>)>>, TRUE)}

ArgsOf(format, chunk_size, pages_per_chunk, gap_factor, indent_threshold) ==
    [format |-> format, chunk_size |-> chunk_size,
     pages_per_chunk |-> pages_per_chunk,
     para_gap_factor |-> gap_factor, para_indent_threshold |-> indent_threshold]

Thresholds == {<<DefaultGapFactor, DefaultIndentThreshold>>, <<<<3, 1>>, 20>>}

PageInputs ==
    {[pdf |-> <<p>>, args |-> ArgsOf(f, 10, 50, t[1], t[2])] :
        p \in RichPages \cup BlockPages, f \in {"html", "text"}, t \in Thresholds}
LongInputs ==
    {[pdf |-> <<p>>,
      args |-> ArgsOf(f, 10, 50, DefaultGapFactor, DefaultIndentThreshold)] :
        p \in LongPages, f \in {"html", "text"}}
DocInputs ==
    {[pdf |-> d,
      args |-> ArgsOf(f, c, 50, DefaultGapFactor, DefaultIndentThreshold)] :
        d \in SeqsUpTo(DocPages, MaxPages), f \in {"html", "text"}, c \in {1, 2}}
    \cup
    {[pdf |-> d,
      args |-> ArgsOf("html-chunks", c, n, DefaultGapFactor, DefaultIndentThreshold)] :
        d \in SeqsUpTo(DocPages, MaxPages), c \in {1, 2}, n \in {1, 2}}

\* a document one page longer than the others, cut into files of two pages
ManyPagesInputs ==
    {[pdf |-> [k \in 1..(MaxPages + 1) |-> PageOf(<<TextBlockOf(<<PlainLine>>)>>, k = q)],
      args |-> ArgsOf("html-chunks", c, 2, DefaultGapFactor, DefaultIndentThreshold)] :
        q \in 0..1, c \in {1, 2}}

Inputs == PageInputs \cup LongInputs \cup DocInputs \cup ManyPagesInputs

\* The environment of a run: the program started (pdf_convert.py,
\* extract_part1.py or extract_part2.py), its input file ("ok", "missing" or
\* "unreadable"), its output file ("ok", "open_fails": it cannot be created,
\* "write_fails": writing to it fails), and whether the input HTML holds
\* Part 2 content
EnvOf(program, input, output, found) ==
    [program |-> program, input |-> input, output |-> output, found |-> found]

Working(program) == EnvOf(program, "ok", "ok", TRUE)

---------------------------------------------------------------------------
(* The program *)

\* The state when main has parsed the command line and built the converter
\* no function of extract_part1 / extract_part2 is being run
NoPart == [fn |-> "none"]

\* the state at program start; parts: the calls of extract_part1 /
\* extract_part2 functions to follow
StartWith(inputs, envs, parts) ==
    /\ \E inp \in inputs : pdf_file = inp.pdf /\ args = inp.args
    /\ env \in envs
    /\ part \in parts
    /\ message = "none"
    /\ fault = "none"
    /\ doc = "None"
    /\ total_pages = 0
    /\ pc = "main"
    /\ chunk_idx = 0
    /\ i = 0
    /\ page_num = 0
    /\ files = <<>>
    /\ bi = 0
    /\ li = 0
    /\ para_text = <<>>
    /\ prev_y1 = -1
    /\ para_start = TRUE
    /\ processed_text = <<>>
    /\ text_lines = <<>>
    /\ result = <<>>
    /\ raised = FALSE
    /\ para_src = <<>>
    /\ emitted = <<>>
    /\ exit_code = "running"
    /\ failed = {}

Start(inputs, envs) == StartWith(inputs, envs, {NoPart})

Init == Start(Inputs, {Working("pdf_convert")})

Html == args.format # "text"

\* The locals of _extract_page_text_simple as one record, and their update
Locals ==
    [para_text |-> para_text, prev_y1 |-> prev_y1, para_start |-> para_start,
     processed_text |-> processed_text, text_lines |-> text_lines,
     para_src |-> para_src, emitted |-> emitted]

SetLocals(st) ==
    /\ para_text' = st.para_text
    /\ prev_y1' = st.prev_y1
    /\ para_start' = st.para_start
    /\ processed_text' = st.processed_text
    /\ text_lines' = st.text_lines
    /\ para_src' = st.para_src
    /\ emitted' = st.emitted

FreshLocals(n) ==
    [para_text |-> <<>>, prev_y1 |-> -1, para_start |-> TRUE,
     processed_text |-> IF Html THEN <<HtmlPageOpen(n)>> ELSE <<>>,
     text_lines |-> <<>>, para_src |-> <<>>, emitted |-> <<>>]

UnchangedLocals ==
    UNCHANGED <<para_text, prev_y1, para_start, processed_text, text_lines,
                para_src, emitted>>

UnchangedInput == UNCHANGED <<pdf_file, args, failed, env, part>>

\* A write to an output file
WriteOf(kind, n, data) == [kind |-> kind, page |-> n, data |-> data]

\* open(path, 'w'): a new, empty file
NewFile(name) == [name |-> name, content |-> <<>>, flushed |-> 0, closed |-> FALSE]

\* f.write(...) on the last opened file
FileWrite(fs, w) == [fs EXCEPT ![Len(fs)].content = Append(@, w)]
\* Mutant: the data stays in the buffer of the file object
FlushLost(fs) == fs

\* f.flush()
FileFlush(fs) == [fs EXCEPT ![Len(fs)].flushed = Len(fs[Len(fs)].content)]
\* leaving "with open(...) as f"
FileClose(fs) == [FileFlush(fs) EXCEPT ![Len(fs)].closed = TRUE]

\* _open_document
OpenDocument ==
    IF doc = "None"
    THEN doc' = "open" /\ total_pages' = Len(pdf_file)
    ELSE UNCHANGED <<doc, total_pages>>

\* "if self.doc:" -- the truth value of the open document: a fitz.Document
\* has __len__ (its page count) and no __bool__, so a document without pages
\* is false
DocTruthy == doc = "open" /\ total_pages > 0

\* _close_document
CloseDocument == IF DocTruthy THEN doc' = "None" ELSE UNCHANGED doc

\* Mutant: the number of files is rounded down
NumChunksFloor == total_pages \div args.pages_per_chunk

\* convert_to_html_chunks: the file layout
NumChunks == (total_pages + args.pages_per_chunk - 1) \div args.pages_per_chunk
StartPage == chunk_idx * args.pages_per_chunk
EndPage == Min(StartPage + args.pages_per_chunk, total_pages)
ChunkName == <<"part", chunk_idx + 1, StartPage + 1, EndPage>>

\* The page range of the running page loop and of its current memory batch
LoopEnd == IF args.format = "html-chunks" THEN EndPage ELSE total_pages

\* range(first, LoopEnd, chunk_size) yields the value k (a zero step raises)
InRange(k) ==
    IF args.chunk_size > 0 THEN k < LoopEnd ELSE args.chunk_size < 0 /\ k > LoopEnd
\* Mutant: the last page of every memory batch is left out
BatchEndShort == Min(i + args.chunk_size, LoopEnd) - 1

BatchEnd == Min(i + args.chunk_size, LoopEnd)

UnchangedCall == UNCHANGED <<bi, li, result, raised>> /\ UnchangedLocals

\* convert_to_html up to its page loop
ConvertToHtml ==
    /\ pc = "main" /\ args.format = "html"
    /\ env.program = "pdf_convert" /\ env.input = "ok" /\ env.output # "open_fails"
    /\ OpenDocument
    /\ files' = FileWrite(<<NewFile(<<"output">>)>>, WriteOf("header", 0, <<>>))
    /\ i' = 0
    /\ pc' = "batch"
    /\ UNCHANGED <<chunk_idx, page_num, exit_code, message, fault>>
    /\ UnchangedCall /\ UnchangedInput

\* convert_to_text up to its page loop
ConvertToText ==
    /\ pc = "main" /\ args.format = "text"
    /\ env.program = "pdf_convert" /\ env.input = "ok" /\ env.output # "open_fails"
    /\ OpenDocument
    /\ files' = <<NewFile(<<"output">>)>>
    /\ i' = 0
    /\ pc' = "batch"
    /\ UNCHANGED <<chunk_idx, page_num, exit_code, message, fault>>
    /\ UnchangedCall /\ UnchangedInput

\* convert_to_html_chunks up to its file loop
ConvertToHtmlChunks ==
    /\ pc = "main" /\ args.format = "html-chunks"
    /\ env.program = "pdf_convert" /\ env.input = "ok" /\ env.output # "open_fails"
    /\ OpenDocument
    /\ chunk_idx' = 0
    /\ pc' = "chunk"
    /\ UNCHANGED <<i, page_num, files, exit_code, message, fault>>
    /\ UnchangedCall /\ UnchangedInput

\* convert_to_html_chunks: open the next file and write its header
ChunkOpen ==
    /\ pc = "chunk" /\ chunk_idx < NumChunks
    /\ files' = FileWrite(Append(files, NewFile(ChunkName)),
                          WriteOf("header", chunk_idx + 1, <<>>))
    /\ i' = StartPage
    /\ pc' = "batch"
    /\ UNCHANGED <<doc, total_pages, chunk_idx, page_num, exit_code, message, fault>>
    /\ UnchangedCall /\ UnchangedInput

\* convert_to_html_chunks: after the last file
ChunksDone ==
    /\ pc = "chunk" /\ chunk_idx >= NumChunks
    /\ CloseDocument
    /\ pc' = "return"
    /\ UNCHANGED <<total_pages, chunk_idx, i, page_num, files, exit_code, message, fault>>
    /\ UnchangedCall /\ UnchangedInput

\* "for i in range(first, last, chunk_size)": enter the next memory batch
BatchBegin ==
    /\ pc = "batch" /\ InRange(i)
    /\ page_num' = i
    /\ pc' = "pages"
    /\ UNCHANGED <<doc, total_pages, chunk_idx, i, files, exit_code, message, fault>>
    /\ UnchangedCall /\ UnchangedInput

\* end of the inner page loop: gc.collect() and the next batch
BatchDone ==
    /\ pc = "pages" /\ page_num >= BatchEnd
    /\ i' = i + args.chunk_size
    /\ pc' = "batch"
    /\ UNCHANGED <<doc, total_pages, chunk_idx, page_num, files, exit_code, message, fault>>
    /\ UnchangedCall /\ UnchangedInput

\* after the page loop: footer, the file is closed; then the next file
\* (html-chunks) or _close_document and return
LoopDone ==
    /\ pc = "batch" /\ ~InRange(i) /\ args.chunk_size # 0
    /\ files' = IF Html THEN FileClose(FileWrite(files, WriteOf("footer", 0, <<>>)))
                ELSE FileClose(files)
    /\ IF args.format = "html-chunks"
       THEN /\ chunk_idx' = chunk_idx + 1
            /\ pc' = "chunk"
            /\ UNCHANGED doc
       ELSE /\ CloseDocument
            /\ pc' = "return"
            /\ UNCHANGED chunk_idx
    /\ UNCHANGED <<total_pages, i, page_num, exit_code, message, fault>>
    /\ UnchangedCall /\ UnchangedInput

\* range(first, last, 0) raises ValueError out of the conversion: the with
\* statement closes the file
RangeError ==
    /\ pc = "batch" /\ args.chunk_size = 0
    /\ files' = FileClose(files)
    /\ pc' = "raise"
    /\ UNCHANGED <<doc, total_pages, chunk_idx, i, page_num, exit_code, message, fault>>
    /\ UnchangedCall /\ UnchangedInput

---------------------------------------------------------------------------
(* _extract_page_text_simple, called for page_num by the page loops *)

Page == pdf_file[page_num + 1]
Block == Page.blocks[bi]

UnchangedLoop ==
    UNCHANGED <<doc, total_pages, chunk_idx, i, page_num, files, exit_code, message, fault>>

\* The call: doc[page_num] and page.get_text("dict", flags=0) succeed
ExtractBegin ==
    /\ pc = "pages" /\ page_num < BatchEnd
    /\ SetLocals(FreshLocals(page_num))
    /\ bi' = 1
    /\ li' = 0
    /\ result' = <<>>
    /\ raised' = FALSE
    /\ pc' = "blocks"
    /\ UnchangedLoop /\ UnchangedInput

\* The call: the page cannot be loaded or decoded; the except clause returns ""
ExtractFail ==
    /\ pc = "pages" /\ page_num < BatchEnd
    /\ Page.faulty
    /\ SetLocals([FreshLocals(page_num) EXCEPT !.processed_text = <<>>])
    /\ bi' = 0
    /\ li' = 0
    /\ result' = <<>>
    /\ raised' = TRUE
    /\ failed' = failed \cup {page_num}
    /\ pc' = "write"
    /\ UnchangedLoop /\ UNCHANGED <<pdf_file, args, env, part>>

\* Mutant: the except clause returns the markup built so far
ExtractRaisePartial ==
    /\ pc \in {"blocks", "lines"}
    /\ Page.faulty
    /\ result' = processed_text
    /\ raised' = TRUE
    /\ failed' = failed \cup {page_num}
    /\ pc' = "write"
    /\ UNCHANGED <<bi, li>>
    /\ UnchangedLocals /\ UnchangedLoop /\ UNCHANGED <<pdf_file, args, env, part>>

\* An exception inside the try block, between two blocks, inside a block or
\* after the last block: the except clause returns ""
ExtractRaise ==
    /\ pc \in {"blocks", "lines"}
    /\ Page.faulty
    /\ result' = <<>>
    /\ raised' = TRUE
    /\ failed' = failed \cup {page_num}
    /\ pc' = "write"
    /\ UNCHANGED <<bi, li>>
    /\ UnchangedLocals /\ UnchangedLoop /\ UNCHANGED <<pdf_file, args, env, part>>

\* "for block in blocks", a text block: reset the reconstruction state
TextBlockBegin ==
    /\ pc = "blocks" /\ bi <= Len(Page.blocks)
    /\ IsTextBlock(Block)
    /\ SetLocals(BlockStart(Locals))
    /\ li' = 1
    /\ pc' = "lines"
    /\ UNCHANGED <<bi, result, raised>>
    /\ UnchangedLoop /\ UnchangedInput

\* "for block in blocks", an image block: the placeholder
ImageBlock ==
    /\ pc = "blocks" /\ bi <= Len(Page.blocks)
    /\ IsImageBlock(Block)
    /\ SetLocals(IF Html THEN HtmlImageBlock(Locals, bi)
                 ELSE TextImageBlock(Locals, bi))
    /\ bi' = bi + 1
    /\ UNCHANGED <<li, result, raised, pc>>
    /\ UnchangedLoop /\ UnchangedInput

\* "for line in block['lines']": one line
LineStep ==
    /\ pc = "lines" /\ li <= Len(Block.lines)
    /\ ~LineKeyError(Locals, Block, li)
    /\ SetLocals(IF Html
                 THEN HtmlLine(Locals, Block, bi, li, args.para_gap_factor,
                               args.para_indent_threshold)
                 ELSE TextLine(Locals, Block, bi, li, args.para_gap_factor,
                               args.para_indent_threshold))
    /\ li' = li + 1
    /\ UNCHANGED <<bi, result, raised, pc>>
    /\ UnchangedLoop /\ UnchangedInput

\* "for line in block['lines']": the line's geometry is missing, the KeyError
\* leaves the loops and the except clause returns ""
LineRaise ==
    /\ pc = "lines" /\ li <= Len(Block.lines)
    /\ LineKeyError(Locals, Block, li)
    /\ result' = <<>>
    /\ raised' = TRUE
    /\ failed' = failed \cup {page_num}
    /\ pc' = "write"
    /\ UNCHANGED <<bi, li>>
    /\ UnchangedLocals /\ UnchangedLoop /\ UNCHANGED <<pdf_file, args, env, part>>

\* after the last line of a text block: the last paragraph
BlockEnd ==
    /\ pc = "lines" /\ li > Len(Block.lines)
    /\ SetLocals(IF Html THEN HtmlBlockEnd(Locals) ELSE TextBlockEnd(Locals))
    /\ bi' = bi + 1
    /\ pc' = "blocks"
    /\ UNCHANGED <<li, result, raised>>
    /\ UnchangedLoop /\ UnchangedInput

\* after the last block: close the page container (HTML) or join the lines
\* (plain text) and return
ExtractReturn ==
    /\ pc = "blocks" /\ bi > Len(Page.blocks)
    /\ IF Html
       THEN /\ processed_text' = Append(processed_text, HtmlPageClose)
            /\ result' = processed_text'
       ELSE /\ result' = JoinLines(text_lines)
            /\ UNCHANGED processed_text
    /\ pc' = "write"
    /\ UNCHANGED <<bi, li, raised, para_text, prev_y1, para_start, text_lines,
                   para_src, emitted>>
    /\ UnchangedLoop /\ UnchangedInput

\* back in the page loop: f.write(page) [and the page break], f.flush()
WritePage ==
    /\ pc = "write"
    /\ files' = IF Html
                THEN FileFlush(FileWrite(files, WriteOf("page", page_num, result)))
                ELSE FileFlush(FileWrite(
                         FileWrite(files, WriteOf("page", page_num, result)),
                         WriteOf("break", page_num, <<>>)))
    /\ page_num' = page_num + 1
    /\ pc' = "pages"
    /\ UNCHANGED <<doc, total_pages, chunk_idx, i, exit_code, message, fault>>
    /\ UnchangedCall /\ UnchangedInput

\* main after the conversion returned: converter.close() and exit status 0
MainExit ==
    /\ pc = "return"
    /\ CloseDocument
    /\ message' = "PDF converted"
    /\ exit_code' = 0
    /\ pc' = "exit"
    /\ UNCHANGED <<total_pages, chunk_idx, i, page_num, files, fault>>
    /\ UnchangedCall /\ UnchangedInput

\* main after the conversion raised: the except clause prints the error and
\* calls sys.exit(1); the finally clause closes the converter
MainFail ==
    /\ pc = "raise"
    /\ CloseDocument
    /\ message' = "Error during conversion"
    /\ exit_code' = 1
    /\ pc' = "exit"
    /\ UNCHANGED <<total_pages, chunk_idx, i, page_num, files, fault>>
    /\ UnchangedCall /\ UnchangedInput

Next ==
    \/ ConvertToHtml
    \/ ConvertToText
    \/ ConvertToHtmlChunks
    \/ ChunkOpen
    \/ ChunksDone
    \/ BatchBegin
    \/ BatchDone
    \/ LoopDone
    \/ ExtractBegin
    \/ ExtractFail
    \/ ExtractRaise
    \/ TextBlockBegin
    \/ ImageBlock
    \/ LineStep
    \/ BlockEnd
    \/ ExtractReturn
    \/ WritePage
    \/ MainExit

Spec == Init /\ [][Next]_vars

---------------------------------------------------------------------------
(* The program on a decoder that may leave out the geometry of a line *)

NoBoxLine == [spans |-> SpansPlain]      \* text "a&", no bbox
NoBoxBlank == [spans |-> SpansBlank]     \* empty after strip, no bbox

MalformedKinds == {PlainLine, PunctLine, NoBoxLine, NoBoxBlank}

MalformedBlocks ==
    {TextBlockOf(l) : l \in {m \in SeqsUpTo(MalformedKinds, MaxLines + 1) :
                                \E k \in 1..Len(m) : ~HasBBox(m[k])}}

MalformedPages ==
    {PageOf(<<b>>, FALSE) : b \in MalformedBlocks}
    \cup {PageOf(<<TextBlockOf(<<PlainLine>>), b>>, FALSE) : b \in MalformedBlocks}
    \cup {PageOf(<<b, ImageBlockOf>>, FALSE) : b \in MalformedBlocks}

MalformedInputs ==
    {[pdf |-> <<p>>,
      args |-> ArgsOf(f, 10, 50, DefaultGapFactor, DefaultIndentThreshold)] :
        p \in MalformedPages, f \in {"html", "text"}}

InitMalformed == Start(MalformedInputs \cup DocInputs, {Working("pdf_convert")})

NextMalformed == Next \/ LineRaise

SpecMalformed == InitMalformed /\ [][NextMalformed]_vars

---------------------------------------------------------------------------
(* The program under any --chunk-size the command line accepts (type=int) *)

ChunkSizes == {-1, 0, 1, 2, 3}

ChunkInputs ==
    {[pdf |-> d,
      args |-> ArgsOf(f, c, 50, DefaultGapFactor, DefaultIndentThreshold)] :
        d \in SeqsUpTo(DocPages, MaxPages), f \in {"html", "text"}, c \in ChunkSizes}

InitAnyChunk == Start(ChunkInputs \cup DocInputs, {Working("pdf_convert")})

NextAnyChunk == Next \/ RangeError \/ MainFail

SpecAnyChunk == InitAnyChunk /\ [][NextAnyChunk]_vars

---------------------------------------------------------------------------
(* The three entry points with files that may be missing, unreadable or
   unwritable *)

\* pdf_convert: fitz.open(pdf_path) raises in _open_document; in
\* convert_to_html_chunks os.makedirs comes first
OpenFails ==
    /\ pc = "main" /\ env.program = "pdf_convert"
    /\ env.input # "ok"
    /\ args.format = "html-chunks" => env.output # "open_fails"
    /\ fault' = "input"
    /\ pc' = "raise"
    /\ UNCHANGED <<doc, total_pages, chunk_idx, i, page_num, files, exit_code, message>>
    /\ UnchangedCall /\ UnchangedInput

\* pdf_convert: the output cannot be created: open(output_path, 'w') raises
\* after the document was opened; in convert_to_html_chunks os.makedirs
\* raises before it is opened
OutputFails ==
    /\ pc = "main" /\ env.program = "pdf_convert"
    /\ env.output = "open_fails"
    /\ IF args.format = "html-chunks"
       THEN UNCHANGED <<doc, total_pages>>
       ELSE env.input = "ok" /\ OpenDocument
    /\ fault' = "output"
    /\ pc' = "raise"
    /\ UNCHANGED <<chunk_idx, i, page_num, files, exit_code, message>>
    /\ UnchangedCall /\ UnchangedInput

\* pdf_convert: f.write(page) raises; the with statement closes the file
WriteFails ==
    /\ pc = "write" /\ env.output = "write_fails"
    /\ files' = FileClose(files)
    /\ fault' = "output"
    /\ pc' = "raise"
    /\ UNCHANGED <<doc, total_pages, chunk_idx, i, page_num, exit_code, message>>
    /\ UnchangedCall /\ UnchangedInput

\* the end of a process by an exception nobody catches: the interpreter
\* prints the traceback and the exit status is 1
Uncaught(what) ==
    /\ fault' = what
    /\ message' = "Traceback"
    /\ exit_code' = 1
    /\ pc' = "exit"

\* the output files save_to_txt / save_to_json leave behind
Saved(names) == [k \in 1..Len(names) |-> FileClose(<<NewFile(names[k])>>)[1]]

UnchangedConverter ==
    /\ UNCHANGED <<doc, total_pages, chunk_idx, i, page_num>>
    /\ UnchangedCall /\ UnchangedInput

\* extract_part1.main up to the merged sections: every HTML file is loaded
\* with no handler around open()
Part1Load ==
    /\ pc = "main" /\ env.program = "extract_part1"
    /\ IF env.input = "ok"
       THEN pc' = "save" /\ UNCHANGED <<exit_code, message, fault>>
       ELSE Uncaught("input")
    /\ UNCHANGED files
    /\ UnchangedConverter

\* extract_part1.main: save_to_txt, save_to_json and the final messages
Part1Save ==
    /\ pc = "save" /\ env.program = "extract_part1"
    /\ IF env.output = "ok"
       THEN /\ files' = Saved(<< <<"part1_content.txt">>, <<"part1_sections.json">> >>)
            /\ message' = "Part 1 content extracted and saved"
            /\ exit_code' = 0
            /\ pc' = "exit"
            /\ UNCHANGED fault
       ELSE /\ files' = IF env.output = "open_fails" THEN <<>>
                        ELSE Saved(<< <<"part1_content.txt">> >>)
            /\ Uncaught("output")
    /\ UnchangedConverter

\* extract_part2.main up to the merged sections: the os.path.exists test,
\* load_html_file, and the test for empty Part 2 content
Part2Load ==
    /\ pc = "main" /\ env.program = "extract_part2"
    /\ IF env.input = "missing"
       THEN /\ fault' = "input"
            /\ message' = "Error: Input file not found"
            /\ exit_code' = 0        \* "return" from main
            /\ pc' = "exit"
       ELSE IF env.input = "unreadable"
       THEN Uncaught("input")
       ELSE IF ~env.found
       THEN /\ message' = "Warning: Could not find Part 2 content"
            /\ exit_code' = 0
            /\ pc' = "exit"
            /\ UNCHANGED fault
       ELSE pc' = "save" /\ UNCHANGED <<exit_code, message, fault>>
    /\ UNCHANGED files
    /\ UnchangedConverter

\* extract_part2.main: save_to_txt and the final messages
Part2Save ==
    /\ pc = "save" /\ env.program = "extract_part2"
    /\ IF env.output = "ok"
       THEN /\ files' = Saved(<< <<"part2_content.txt">> >>)
            /\ message' = "Successfully extracted and merged Part 2 content"
            /\ exit_code' = 0
            /\ pc' = "exit"
            /\ UNCHANGED fault
       ELSE /\ files' = IF env.output = "open_fails" THEN <<>>
                        ELSE Saved(<< <<"part2_content.txt">> >>)
            /\ Uncaught("output")
    /\ UnchangedConverter

FileStates == {"ok", "missing", "unreadable"} \X {"ok", "open_fails", "write_fails"}

PdfEnvs == {EnvOf("pdf_convert", fs[1], fs[2], TRUE) : fs \in FileStates}
PartEnvs == {EnvOf(p, fs[1], fs[2], found) :
                p \in {"extract_part1", "extract_part2"}, fs \in FileStates,
                found \in BOOLEAN}

\* extract_part1 / extract_part2 read no PDF and share none of the options
NoDocument ==
    [pdf |-> <<>>,
     args |-> ArgsOf("none", 1, 1, DefaultGapFactor, DefaultIndentThreshold)]

InitEntry == Start(DocInputs, PdfEnvs) \/ Start({NoDocument}, PartEnvs)

NextEntry ==
    \/ Next
    \/ MainFail
    \/ OpenFails
    \/ OutputFails
    \/ WriteFails
    \/ Part1Load
    \/ Part1Save
    \/ Part2Load
    \/ Part2Save

SpecEntry == InitEntry /\ [][NextEntry]_vars

---------------------------------------------------------------------------
(* Vocabulary of the properties *)

\* The extractor has returned normally and its locals are those of the call
Returned == pc = "write" /\ ~raised

\* The line a source pair <<block, line>> names, on the current page
SrcLine(src) == Page.blocks[src[1]].lines[src[2]]
SrcText(src) == LineText(SrcLine(src))

\* sources of the non-empty lines k..last of block b, in order
NonEmptyFrom(b, k, last) ==
    Concat([m \in 1..(last - k + 1) |->
               IF LineText(Page.blocks[b].lines[k + m - 1]) # <<>>
               THEN << <<b, k + m - 1>> >> ELSE <<>>])

RECURSIVE NonEmptyBlocks(_, _)
\* sources of the non-empty lines of the text blocks b..last, in order
NonEmptyBlocks(b, last) ==
    IF b > last THEN <<>>
    ELSE (IF IsTextBlock(Page.blocks[b])
          THEN NonEmptyFrom(b, 1, Len(Page.blocks[b].lines)) ELSE <<>>)
         \o NonEmptyBlocks(b + 1, last)

IsPara(e) == e.kind = "p"
Paragraphs == SelectSeq(emitted, IsPara)

RECURSIVE SrcsOf(_)
\* the sources of a sequence of emitted paragraphs, read in emission order
SrcsOf(es) == IF es = <<>> THEN <<>> ELSE Head(es).src \o SrcsOf(Tail(es))

StripHyphen(t) == IF EndsWithHyphen(t) THEN Front(t) ELSE t

(* C1 -- Completeness: the sources of the line texts accumulated into the
   emitted paragraphs (and, while a block is being processed, into the
   in-progress paragraph), read in emission order, are exactly the non-empty
   lines of the text blocks processed so far, each exactly once and in
   original order; each accumulated text is the text of its line (with the
   trailing hyphen possibly removed). *)
Completeness ==
    /\ pc = "lines" =>
          /\ SrcsOf(Paragraphs) \o para_src
                = NonEmptyBlocks(1, bi - 1) \o NonEmptyFrom(bi, 1, li - 1)
          /\ Len(para_text) = Len(para_src)
          /\ \A j \in 1..Len(para_src) :
                para_text[j] \in {SrcText(para_src[j]), StripHyphen(SrcText(para_src[j]))}
    /\ Returned => SrcsOf(Paragraphs) = NonEmptyBlocks(1, Len(Page.blocks))

\* C1 witness: a block with a skipped empty line and two emitted paragraphs
CompletenessWitness ==
    /\ Returned
    /\ Len(Page.blocks) = 1
    /\ Len(Page.blocks[1].lines) = 3
    /\ \E k \in 1..3 : LineText(Page.blocks[1].lines[k]) = <<>>
    /\ Len(Paragraphs) = 2

NonBlank(t) == t # <<>>

\* The string rendered for the j-th emitted element of the page
EmittedString(j) ==
    IF Html THEN processed_text[j + 1].text
    ELSE SelectSeq(text_lines, NonBlank)[j]

\* A text as the rendering shows it
Rendered(t) == IF Html THEN Escape(t) ELSE t

Contains(t, sub) ==
    \E k \in 1..(Len(t) - Len(sub) + 1) : SubSeq(t, k, k + Len(sub) - 1) = sub

EndsPunct(t) == t # <<>> /\ Last(t) \in Punctuation

\* Consecutive sources <<u, v>> inside one paragraph, emitted or in progress
SameParagraphPairs ==
    UNION {{<<emitted[j].src[m], emitted[j].src[m + 1]>> :
               m \in 1..(Len(emitted[j].src) - 1)} : j \in 1..Len(emitted)}
    \cup (IF pc = "lines"
          THEN {<<para_src[m], para_src[m + 1]>> : m \in 1..(Len(para_src) - 1)}
          ELSE {})

InExtractor == pc \in {"blocks", "lines"} \/ Returned

(* C2 -- Hyphenation join, as claimed: whenever a line ending in '-' is
   followed in its paragraph by the next non-empty line, the emitted paragraph
   contains the first text without its hyphen immediately followed by the
   second text, with no space between them.  The code keeps the hyphen of a
   paragraph's first line and always joins with a space: violated. *)
HyphenJoinClaim ==
    Returned =>
        \A j \in 1..Len(emitted) :
            \A m \in 1..(Len(emitted[j].src) - 1) :
                LET t1 == SrcText(emitted[j].src[m])
                    t2 == SrcText(emitted[j].src[m + 1])
                IN (emitted[j].kind = "p" /\ EndsWithHyphen(t1)) =>
                      Contains(EmittedString(j),
                               Rendered(Front(t1) \o StripHyphen(t2)))

(* C3 -- Punctuation-triggered split, as claimed: two consecutive non-empty
   lines of a block are never in the same paragraph when the text of the
   earlier one ends in '.', '?', '!', ':' or ';'.  Violated when the bottom
   of the earlier line is not positive. *)
PunctuationSplitClaim ==
    InExtractor =>
        \A pr \in SameParagraphPairs : ~EndsPunct(SrcText(pr[1]))

(* C4 -- Gap-triggered split, as claimed: two consecutive non-empty lines
   with the same left coordinate are never in the same paragraph when the
   later line's top minus the earlier line's bottom exceeds the gap factor
   times the later line's height.  Violated when the bottom of the earlier
   line is not positive. *)
GapSplitClaim ==
    InExtractor =>
        \A pr \in SameParagraphPairs :
            LET u == SrcLine(pr[1])
                v == SrcLine(pr[2])
            IN ~(/\ u.bbox[1] = v.bbox[1]
                 /\ (v.bbox[2] - u.bbox[4]) * args.para_gap_factor[2]
                       > args.para_gap_factor[1] * (v.bbox[4] - v.bbox[2]))

(* C5 -- Indent-triggered split, as claimed: a non-empty line whose left
   coordinate exceeds that of the block's first line by more than the indent
   threshold is never appended to the paragraph of the line before it.
   Violated when the bottom of the line before it is not positive. *)
IndentSplitClaim ==
    InExtractor =>
        \A pr \in SameParagraphPairs :
            LET v == SrcLine(pr[2])
                first == Page.blocks[pr[2][1]].lines[1]
            IN ~(v.bbox[1] - first.bbox[1] > args.para_indent_threshold)

---------------------------------------------------------------------------
(* The extractor as a function of the page: the loops above, run to the end *)

RECURSIVE HtmlLineRange(_, _, _, _, _, _, _)
\* the line loop over lines lo..hi, the second half run on the state the
\* first half leaves
HtmlLineRange(st, block, b, lo, hi, gap_factor, indent_threshold) ==
    IF lo > hi THEN st
    ELSE IF lo = hi THEN HtmlLine(st, block, b, lo, gap_factor, indent_threshold)
    ELSE LET mid == (lo + hi) \div 2
             half == HtmlLineRange(st, block, b, lo, mid, gap_factor, indent_threshold)
         IN IF half.para_start \in BOOLEAN   \* the first half is computed first
            THEN HtmlLineRange(half, block, b, mid + 1, hi, gap_factor, indent_threshold)
            ELSE half

RECURSIVE TextLineRange(_, _, _, _, _, _, _)
TextLineRange(st, block, b, lo, hi, gap_factor, indent_threshold) ==
    IF lo > hi THEN st
    ELSE IF lo = hi THEN TextLine(st, block, b, lo, gap_factor, indent_threshold)
    ELSE LET mid == (lo + hi) \div 2
             half == TextLineRange(st, block, b, lo, mid, gap_factor, indent_threshold)
         IN IF half.para_start \in BOOLEAN   \* the first half is computed first
            THEN TextLineRange(half, block, b, mid + 1, hi, gap_factor, indent_threshold)
            ELSE half

HtmlLines(st, block, b, k, gap_factor, indent_threshold) ==
    HtmlBlockEnd(HtmlLineRange(st, block, b, k, Len(block.lines),
                               gap_factor, indent_threshold))

TextLines(st, block, b, k, gap_factor, indent_threshold) ==
    TextBlockEnd(TextLineRange(st, block, b, k, Len(block.lines),
                               gap_factor, indent_threshold))

RECURSIVE HtmlBlocks(_, _, _, _, _)
HtmlBlocks(st, blocks, b, gap_factor, indent_threshold) ==
    IF b > Len(blocks) THEN st
    ELSE HtmlBlocks(
             IF IsTextBlock(blocks[b])
             THEN HtmlLines(BlockStart(st), blocks[b], b, 1, gap_factor, indent_threshold)
             ELSE HtmlImageBlock(st, b),
             blocks, b + 1, gap_factor, indent_threshold)

RECURSIVE TextBlocks(_, _, _, _, _)
TextBlocks(st, blocks, b, gap_factor, indent_threshold) ==
    IF b > Len(blocks) THEN st
    ELSE TextBlocks(
             IF IsTextBlock(blocks[b])
             THEN TextLines(BlockStart(st), blocks[b], b, 1, gap_factor, indent_threshold)
             ELSE TextImageBlock(st, b),
             blocks, b + 1, gap_factor, indent_threshold)

NoLocals(first) ==
    [para_text |-> <<>>, prev_y1 |-> -1, para_start |-> TRUE,
     processed_text |-> first, text_lines |-> <<>>, para_src |-> <<>>,
     emitted |-> <<>>]

\* _extract_page_text_simple(n, include_html_tags=True, preserve_paragraphs=True)
ExtractHtml(page, n, gap_factor, indent_threshold) ==
    Append(HtmlBlocks(NoLocals(<<HtmlPageOpen(n)>>), page.blocks, 1,
                      gap_factor, indent_threshold).processed_text,
           HtmlPageClose)

\* _extract_page_text_simple(n, include_html_tags=False, preserve_paragraphs=True)
ExtractText(page, n, gap_factor, indent_threshold) ==
    JoinLines(TextBlocks(NoLocals(<<>>), page.blocks, 1,
                         gap_factor, indent_threshold).text_lines)

---------------------------------------------------------------------------
(* Reading the renderings back *)

StartsWith(t, pre) == Len(t) >= Len(pre) /\ SubSeq(t, 1, Len(pre)) = pre
Drop(t, n) == SubSeq(t, n + 1, Len(t))

Entities == {<<<<"&", "a", "m", "p", ";">>, "&">>,
             <<<<"&", "l", "t", ";">>, "<">>,
             <<<<"&", "g", "t", ";">>, ">">>,
             <<<<"&", "q", "u", "o", "t", ";">>, "\"">>,
             <<<<"&", "#", "x", "2", "7", ";">>, "'">>}

\* the entity that starts at position k of t, if any
EntityAt(t, k) == {e \in Entities : StartsWith(Drop(t, k - 1), e[1])}

\* position k of t lies inside an entity that starts before it (an entity
\* holds no "&" after its first character, so entities never overlap)
InsideEntity(t, k) ==
    \E d \in 1..5 : k - d >= 1 /\ \E e \in EntityAt(t, k - d) : Len(e[1]) > d

\* the inverse reading of the entities html.escape writes
Unescape(t) ==
    Concat([k \in 1..Len(t) |->
               IF InsideEntity(t, k) THEN <<>>
               ELSE IF EntityAt(t, k) # {} THEN <<(CHOOSE e \in EntityAt(t, k) : TRUE)[2]>>
               ELSE <<t[k]>>])

\* t.split("\n")
SplitLines(t) ==
    LET nl == {k \in 1..Len(t) : t[k] = "\n"} \cup {0, Len(t) + 1}
        cut(n) == CHOOSE k \in nl : Cardinality({m \in nl : m < k}) = n
    IN [n \in 1..(Cardinality(nl) - 1) |-> SubSeq(t, cut(n - 1) + 1, cut(n) - 1)]

IsContent(e) == e.tag \in {"p", "div.image"}

RECURSIVE Texts(_)
Texts(es) == IF es = <<>> THEN <<>> ELSE <<Unescape(Head(es).text)>> \o Texts(Tail(es))

\* HTML rendering without markup and escaping
HtmlStrings(html) == Texts(SelectSeq(html, IsContent))

\* Plain-text rendering without the blank separator lines
TextStrings(text) == SelectSeq(SplitLines(text), NonBlank)

---------------------------------------------------------------------------
(* C6 -- Cap enforcement, as claimed: every emitted paragraph is built from
   at most 100 source lines.  The code splits when the accumulator holds
   more than 100 texts, so a forced paragraph has 101: violated. *)
CapClaim ==
    InExtractor => \A j \in 1..Len(emitted) : Len(emitted[j].src) <= MaxParaLines

IsLongPage == Len(Page.blocks) = 1 /\ Page.blocks[1] \in LongBlocks

(* C6, amended -- every emitted paragraph is built from at most 101 source
   lines (the cap plus one); a block of n lines on which no boundary triggers
   yields ceil(n / 101) paragraphs, so the block of 250 lines yields 3. *)
CapEnforcement ==
    /\ InExtractor =>
          \A j \in 1..Len(emitted) : Len(emitted[j].src) <= MaxParaLines + 1
    /\ (Returned /\ IsLongPage) =>
          LET n == Len(Page.blocks[1].lines)
              k == Len(Paragraphs)
          IN /\ k * (MaxParaLines + 1) >= n
             /\ (k - 1) * (MaxParaLines + 1) < n
             /\ n = LongLines => k >= 3

\* C6 witness: the long block has been split by the cap into three paragraphs
CapWitness ==
    /\ Returned /\ IsLongPage
    /\ Len(Page.blocks[1].lines) = LongLines
    /\ Len(Paragraphs) = 3
    /\ Len(Paragraphs[1].src) = MaxParaLines + 1

Gap == args.para_gap_factor
Indent == args.para_indent_threshold

(* C7 -- Mode equivalence: the value the extractor returns for a page is the
   rendering of its mode, and the HTML rendering without markup and escaping
   is the same sequence of strings (paragraphs and image placeholders) as the
   plain-text rendering of the same page under the same thresholds without
   its blank lines. *)
ModeEquivalence ==
    Returned =>
        IF Html
        THEN /\ result = ExtractHtml(Page, page_num, Gap, Indent)
             /\ HtmlStrings(result)
                   = TextStrings(ExtractText(Page, page_num, Gap, Indent))
        ELSE /\ result = ExtractText(Page, page_num, Gap, Indent)
             /\ TextStrings(result)
                   = HtmlStrings(ExtractHtml(Page, page_num, Gap, Indent))

\* C7 witness: an HTML page with an image, two paragraphs and an escaped "&"
ModeEquivalenceWitness ==
    /\ Returned /\ Html
    /\ Len(emitted) = 3
    /\ \E j \in 1..3 : emitted[j].kind = "img"
    /\ \E j \in 1..Len(result) : Contains(result[j].text, <<"&", "a", "m", "p", ";">>)

SrcLess(u, v) == u[1] < v[1] \/ (u[1] = v[1] /\ u[2] < v[2])

(* C8 -- Ordering: the sources of the emitted elements, read in emission
   order, are strictly increasing in <<block, line>> and belong to blocks
   already entered; every emitted paragraph holds lines of one block only;
   the in-progress paragraph holds lines of the current block only and is
   empty when the first line of a block is about to be processed. *)
Ordering ==
    /\ InExtractor =>
          LET all == SrcsOf(emitted)
          IN /\ \A m \in 1..(Len(all) - 1) : SrcLess(all[m], all[m + 1])
             /\ \A m \in 1..Len(all) : all[m][1] <= bi
             /\ \A j \in 1..Len(emitted) :
                   \A m \in 1..Len(emitted[j].src) :
                       emitted[j].src[m][1] = emitted[j].src[1][1]
    /\ pc = "lines" =>
          /\ \A m \in 1..Len(para_src) : para_src[m][1] = bi
          /\ li = 1 => para_text = <<>>

\* C8 witness: a second text block is entered after a first one that emitted
OrderingWitness ==
    /\ pc = "lines" /\ bi = 2 /\ li = 1
    /\ IsTextBlock(Page.blocks[1])
    /\ Len(Paragraphs) >= 2

(* C9 -- Image placeholder isolation: every image block already processed
   has exactly one emitted element; it is the placeholder "[Image]" (an image
   container in HTML), it is no paragraph, no paragraph and no in-progress
   paragraph holds it, and the text block after an image block starts from
   the initial reconstruction state. *)
ImageIsolation ==
    /\ InExtractor =>
          \A b \in 1..Min(bi - 1, Len(Page.blocks)) :
              IsImageBlock(Page.blocks[b]) =>
                  /\ Cardinality({j \in 1..Len(emitted) :
                        \E m \in 1..Len(emitted[j].src) : emitted[j].src[m][1] = b}) = 1
                  /\ \E j \in 1..Len(emitted) :
                        /\ emitted[j] = [kind |-> "img", src |-> << <<b, 0>> >>]
                        /\ EmittedString(j) = ImagePlaceholder
                        /\ Html => processed_text[j + 1] = HtmlImage
    /\ pc = "lines" =>
          /\ \A m \in 1..Len(para_src) : para_src[m][2] # 0
          /\ (li = 1 /\ bi > 1 /\ IsImageBlock(Page.blocks[bi - 1])) =>
                para_text = <<>> /\ prev_y1 = -1 /\ para_start

\* C9 witness: a page with a text block followed by an image block
ImageIsolationWitness ==
    /\ Returned
    /\ Len(Page.blocks) = 2
    /\ IsTextBlock(Page.blocks[1]) /\ IsImageBlock(Page.blocks[2])
    /\ Len(emitted) = 3

\* The writes of pages to the output files, in file and write order
RECURSIVE PageWrites(_)
PageWrites(fs) ==
    IF fs = <<>> THEN <<>>
    ELSE SelectSeq(Head(fs).content, LAMBDA w : w.kind = "page") \o PageWrites(Tail(fs))

(* C10 -- Page failure isolation: a call that raised returns the empty
   string; what is written for a page whose extraction raised is empty; the
   pages written so far are 0, 1, 2, ... in order with no page skipped, all
   N of them once the conversion has returned, and main then exits with
   status 0. *)
PageFailureIsolation ==
    /\ (pc = "write" /\ raised) => result = <<>>
    /\ LET ws == PageWrites(files)
       IN /\ \A k \in 1..Len(ws) :
                /\ ws[k].page = k - 1
                /\ ws[k].page \in failed => ws[k].data = <<>>
          /\ pc \in {"return", "exit"} => Len(ws) = Len(pdf_file)
          /\ failed \subseteq 0..(Len(ws))
    /\ pc = "exit" => exit_code = 0

\* C10 witness: page 1 raised after markup had been built, page 2 was written
PageFailureWitness ==
    /\ pc = "exit"
    /\ Len(pdf_file) = 2
    /\ failed = {0}
    /\ PageWrites(files)[1].data = <<>>
    /\ PageWrites(files)[2].data # <<>>

---------------------------------------------------------------------------
\* the first non-empty line of block b, as a source
FirstNonEmpty(b) == NonEmptyFrom(b, 1, Len(Page.blocks[b].lines))[1]

(* C11 -- Malformed geometry, as claimed: when the call for a page that can
   be loaded ends, it has not gone through its except clause; every non-empty
   line of the page's text blocks, with or without a bounding box, is in an
   emitted paragraph, so the returned rendering is not empty when the page
   has such lines; and no paragraph starts at a line without bounding box
   other than the first non-empty line of its block.  The code reads
   line["bbox"] of every non-empty line, the KeyError is caught by the
   page-level except clause and the page's output is "": violated. *)
MalformedGeometryClaim ==
    (pc = "write" /\ ~Page.faulty) =>
        /\ ~raised
        /\ SrcsOf(Paragraphs) = NonEmptyBlocks(1, Len(Page.blocks))
        /\ NonEmptyBlocks(1, Len(Page.blocks)) # <<>> => result # <<>>
        /\ \A j \in 1..Len(emitted) :
              (emitted[j].kind = "p" /\ ~HasBBox(SrcLine(emitted[j].src[1]))) =>
                  emitted[j].src[1] = FirstNonEmpty(emitted[j].src[1][1])

---------------------------------------------------------------------------
\* block without its k-th line, and page with block b replaced
RemoveLine(block, k) ==
    [block EXCEPT !.lines = SubSeq(@, 1, k - 1) \o SubSeq(@, k + 1, Len(@))]
PageWith(page, b, block) == [page EXCEPT !.blocks[b] = block]

\* the rendering of the mode of the run, as a function of the page
Extract(page) ==
    IF Html THEN ExtractHtml(page, page_num, Gap, Indent)
    ELSE ExtractText(page, page_num, Gap, Indent)

(* C12 -- Empty lines are transparent, as claimed: the rendering returned for
   a page equals the rendering of the same page with any one empty line of
   any of its text blocks deleted.  The indent condition measures from
   block["lines"][0] even when that line is empty, so deleting an empty first
   line moves the reference: violated. *)
EmptyLineClaim ==
    Returned =>
        \A b \in 1..Len(Page.blocks) :
            IsTextBlock(Page.blocks[b]) =>
                \A k \in 1..Len(Page.blocks[b].lines) :
                    LineText(Page.blocks[b].lines[k]) = <<>> =>
                        result = Extract(PageWith(Page, b, RemoveLine(Page.blocks[b], k)))

---------------------------------------------------------------------------
(* C13 -- Plain-text rendering format, as claimed: in the plain-text
   rendering returned for a page, every line that is not blank (a paragraph
   or an image placeholder) is immediately followed by a blank line.  The
   code appends the blank line after a paragraph emitted at a boundary and
   after a placeholder, but not after a paragraph emitted by the cap or at
   the end of a block: violated. *)
TextFormatClaim ==
    (Returned /\ ~Html) =>
        LET ls == SplitLines(result)
        IN \A j \in 1..Len(ls) :
               ls[j] # <<>> => (j < Len(ls) /\ ls[j + 1] = <<>>)

---------------------------------------------------------------------------
\* what one block, processed alone, adds to the rendering
BlockHtml(block) ==
    HtmlBlocks(NoLocals(<<>>), <<block>>, 1, Gap, Indent).processed_text
BlockText(block) ==
    TextBlocks(NoLocals(<<>>), <<block>>, 1, Gap, Indent).text_lines

(* C14 -- Block-scoped state: the rendering returned for a page is the
   concatenation, in block order, of what each of its blocks yields when it
   is processed alone from the initial reconstruction state (inside the page
   container in HTML, joined by newlines in plain text); and what is written
   for a page whose extraction did not fail is the rendering of that page
   alone, whatever the other pages of the document are. *)
BlockScoped ==
    /\ Returned =>
          IF Html
          THEN result = <<HtmlPageOpen(page_num)>>
                           \o Concat([b \in 1..Len(Page.blocks) |-> BlockHtml(Page.blocks[b])])
                           \o <<HtmlPageClose>>
          ELSE result = JoinLines(
                           Concat([b \in 1..Len(Page.blocks) |-> BlockText(Page.blocks[b])]))
    /\ LET ws == PageWrites(files)
       IN \A k \in 1..Len(ws) :
              ws[k].page \notin failed =>
                  ws[k].data = IF Html
                               THEN ExtractHtml(pdf_file[ws[k].page + 1], ws[k].page, Gap, Indent)
                               ELSE ExtractText(pdf_file[ws[k].page + 1], ws[k].page, Gap, Indent)

\* C14 witness: a page of two text blocks, the first of which emitted two
\* paragraphs and left its last one in the accumulator
BlockScopedWitness ==
    /\ Returned
    /\ Len(Page.blocks) = 2
    /\ IsTextBlock(Page.blocks[1]) /\ IsTextBlock(Page.blocks[2])
    /\ Len(Paragraphs) >= 3

---------------------------------------------------------------------------
\* what the output files hold on disk: the flushed prefix of each, in order
RECURSIVE Durable(_)
Durable(fs) ==
    IF fs = <<>> THEN <<>>
    ELSE SubSeq(Head(fs).content, 1, Head(fs).flushed) \o Durable(Tail(fs))

IsPageWrite(w) == w.kind = "page"
IsPageOrBreak(w) == w.kind \in {"page", "break"}

(* C15 -- Eager per-page flush: in every state of a conversion (so wherever
   the process may be stopped), and in particular whenever the extraction of
   page k+1 begins or is under way, the flushed part of the output files
   holds the writes of exactly the pages 0..page_num-1 processed so far, in
   page order, each with the complete value its extraction returned (the
   empty string for a failed page), and in plain text each followed by its
   page break. *)
EagerFlush ==
    LET dw == SelectSeq(Durable(files), IsPageWrite)
        db == SelectSeq(Durable(files), IsPageOrBreak)
    IN /\ Len(dw) = page_num
       /\ \A k \in 1..Len(dw) :
             /\ dw[k].page = k - 1
             /\ dw[k].data = IF k - 1 \in failed THEN <<>>
                             ELSE IF Html
                             THEN ExtractHtml(pdf_file[k], k - 1, Gap, Indent)
                             ELSE ExtractText(pdf_file[k], k - 1, Gap, Indent)
       /\ ~Html =>
             /\ Len(db) = 2 * page_num
             /\ \A k \in 1..page_num :
                   db[2 * k - 1].kind = "page" /\ db[2 * k].kind = "break"

\* C15 witness: the second page is being extracted while the output file is
\* still open and holds the non-empty output of the first page on disk
EagerFlushWitness ==
    /\ pc = "lines" /\ page_num = 1
    /\ ~files[Len(files)].closed
    /\ \E w \in {Durable(files)[k] : k \in 1..Len(Durable(files))} :
          w.kind = "page" /\ w.page = 0 /\ w.data # <<>>

---------------------------------------------------------------------------
\* what a single-file conversion writes for page k (1-based), given the pages
\* whose extraction failed
PageOutput(k) ==
    LET data == IF k - 1 \in failed THEN <<>>
                ELSE IF Html THEN ExtractHtml(pdf_file[k], k - 1, Gap, Indent)
                ELSE ExtractText(pdf_file[k], k - 1, Gap, Indent)
    IN IF Html THEN <<WriteOf("page", k - 1, data)>>
       ELSE <<WriteOf("page", k - 1, data), WriteOf("break", k - 1, <<>>)>>

\* the complete output file of convert_to_html / convert_to_text: a function
\* of the document (and of the failed pages), not of the chunk size
WholeOutput ==
    LET body == Concat([k \in 1..Len(pdf_file) |-> PageOutput(k)])
        content == IF Html
                   THEN <<WriteOf("header", 0, <<>>)>> \o body
                           \o <<WriteOf("footer", 0, <<>>)>>
                   ELSE body
    IN <<[name |-> <<"output">>, content |-> content,
         flushed |-> Len(content), closed |-> TRUE]>>

SingleFile == args.format \in {"html", "text"}

(* C16 -- Chunk size is memory-only, as claimed: for every configured chunk
   size, a single-file conversion starts the extraction of a page only when
   exactly the pages before it have been written, and when main ends the
   output file is the complete output of the document, which does not mention
   the chunk size.  With --chunk-size 0 the page loop raises and main exits
   with status 1 after the header; with a negative chunk size the page loop
   is empty and no page is written: violated. *)
ChunkSizeClaim ==
    SingleFile =>
        /\ pc \in {"blocks", "lines", "write"} => Len(PageWrites(files)) = page_num
        /\ pc = "exit" => files = WholeOutput

(* C16, amended -- for every chunk size of at least 1, a single-file
   conversion starts the extraction of a page only when exactly the pages
   before it have been written, and when the conversion has returned the
   output file is the complete output of the document, the same for every
   such chunk size. *)
ChunkSizeIndependence ==
    (SingleFile /\ args.chunk_size >= 1) =>
        /\ pc \in {"blocks", "lines", "write"} => Len(PageWrites(files)) = page_num
        /\ pc \in {"return", "exit"} => files = WholeOutput

\* C16 witness: a document of two pages converted with a chunk size that
\* does not divide the page count evenly, or exceeds it
ChunkSizeWitness ==
    /\ SingleFile /\ pc = "exit"
    /\ Len(pdf_file) = 2 /\ args.chunk_size = 3
    /\ failed = {}

---------------------------------------------------------------------------
\* the line numbers of a paragraph's sources
LinesOf(src) == [m \in 1..Len(src) |-> src[m][2]]

\* the segmentation of block b in the running call: the line numbers of each
\* paragraph emitted for it, in emission order
RunSegments(b) ==
    LET ps == SelectSeq(emitted, LAMBDA e : e.kind = "p" /\ e.src[1][1] = b)
    IN [j \in 1..Len(ps) |-> LinesOf(ps[j].src)]

\* the segmentation as a function of the block's lines and the thresholds
Segments(block, gap_factor, indent_threshold) ==
    LET es == HtmlBlocks(NoLocals(<<>>), <<block>>, 1,
                         gap_factor, indent_threshold).emitted
    IN [j \in 1..Len(es) |-> LinesOf(es[j].src)]

(* C17 -- Boundary determinism: the segmentation a call produces for a text
   block (which lines go into which paragraph) is a function of the block's
   lines and of the two thresholds only; it is the same in either rendering,
   at any position in the page, on any page, after any earlier blocks, and
   so the same in any two runs on the same lines and thresholds. *)
Determinism ==
    Returned =>
        \A b \in 1..Len(Page.blocks) :
            IsTextBlock(Page.blocks[b]) =>
                RunSegments(b) = Segments(Page.blocks[b], Gap, Indent)

\* C17 witness: the plain-text path has processed the same line sequence
\* twice in one page, after a different history, into two paragraphs each
DeterminismWitness ==
    /\ Returned /\ ~Html
    /\ Len(Page.blocks) = 2
    /\ Page.blocks[1] = Page.blocks[2]
    /\ Len(RunSegments(1)) = 2 /\ RunSegments(2) = RunSegments(1)

---------------------------------------------------------------------------
\* the thresholds the segmentation of a block is recomputed with
GapFactors == {<<3, 2>>, <<2, 1>>, <<3, 1>>}
IndentThresholds == {10, 11, 20}

\* g >= h, for rationals <<num, den>> with den > 0
RatGeq(g, h) == g[1] * h[2] >= h[1] * g[2]

NonNegativeHeights(block) ==
    \A k \in 1..Len(block.lines) : block.lines[k].bbox[4] >= block.lines[k].bbox[2]

(* C18 -- Threshold monotonicity: for every text block whose lines have
   non-negative height, the number of paragraphs the call emitted for it is
   at least the number the block yields under any larger gap factor (same
   indent threshold) and under any larger indent threshold (same gap
   factor). *)
Monotonicity ==
    Returned =>
        \A b \in 1..Len(Page.blocks) :
            (IsTextBlock(Page.blocks[b]) /\ NonNegativeHeights(Page.blocks[b])) =>
                /\ \A g \in GapFactors :
                      RatGeq(g, Gap) =>
                          Len(Segments(Page.blocks[b], g, Indent)) <= Len(RunSegments(b))
                /\ \A t \in IndentThresholds :
                      t >= Indent =>
                          Len(Segments(Page.blocks[b], Gap, t)) <= Len(RunSegments(b))

\* C18 witness: a block that yields fewer paragraphs under the larger gap
\* factor and fewer under the larger indent threshold than the call emitted
MonotonicityWitness ==
    /\ Returned
    /\ Len(Page.blocks) = 1 /\ IsTextBlock(Page.blocks[1])
    /\ Len(Segments(Page.blocks[1], <<3, 1>>, Indent)) < Len(RunSegments(1))
    /\ Len(Segments(Page.blocks[1], Gap, 20)) < Len(RunSegments(1))

---------------------------------------------------------------------------
Diagnostics == {"Error during conversion", "Traceback", "Error: Input file not found"}

(* C19 -- Fatal orchestration errors, as claimed: whenever one of the three
   programs has ended after its input file was found missing or unreadable or
   an operation on its output file failed, its exit status is not 0 and the
   last thing it printed is a diagnostic.  extract_part2.main prints the
   diagnostic for a missing input file and returns normally, so the exit
   status is 0: violated. *)
FatalErrorsClaim ==
    (pc = "exit" /\ fault # "none") =>
        /\ exit_code # 0
        /\ message \in Diagnostics

---------------------------------------------------------------------------
\* the text of the m-th line of emitted paragraph j as it was accumulated:
\* a line appended to a non-empty paragraph has lost its trailing hyphen
Accumulated(j, m) ==
    IF m = 1 THEN SrcText(emitted[j].src[1])
    ELSE StripHyphen(SrcText(emitted[j].src[m]))

\* the three boundary conditions for the line v that follows the line u
GapCondition(u, v) ==
    (SrcLine(v).bbox[2] - SrcLine(u).bbox[4]) * Gap[2]
        > Gap[1] * (SrcLine(v).bbox[4] - SrcLine(v).bbox[2])
IndentCondition(v) ==
    SrcLine(v).bbox[1] - Page.blocks[v[1]].lines[1].bbox[1] > Indent

\* the source that opens what follows emitted element j, if it is text of
\* the same block: the next emitted paragraph or the in-progress paragraph
Following(j) ==
    IF j < Len(emitted)
    THEN IF emitted[j + 1].kind = "p" THEN {emitted[j + 1].src[1]} ELSE {}
    ELSE IF pc = "lines" /\ para_src # <<>> THEN {para_src[1]} ELSE {}

(* C20 -- Boundary soundness: whenever a paragraph has been emitted and the
   next non-empty line of the same block has been processed (so the two
   consecutive lines are in different paragraphs), the gap condition or the
   indent condition holds for the later line, or the text accumulated for the
   earlier line ends in a punctuation character, or the emitted paragraph
   holds more lines than the cap; the later line is the next non-empty line
   of the block. *)
BoundarySoundness ==
    InExtractor =>
        \A j \in 1..Len(emitted) :
            emitted[j].kind = "p" =>
                \A v \in {w \in Following(j) : w[1] = emitted[j].src[1][1]} :
                    LET n == Len(emitted[j].src)
                        u == emitted[j].src[n]
                    IN /\ u[2] < v[2]
                       /\ NonEmptyFrom(u[1], u[2] + 1, v[2]) = <<v>>
                       /\ \/ GapCondition(u, v)
                          \/ IndentCondition(v)
                          \/ EndsPunct(Accumulated(j, n))
                          \/ n > MaxParaLines

\* C20 witness: a long block split once by a boundary condition and once by
\* the cap
BoundarySoundnessWitness ==
    /\ Returned
    /\ Len(Page.blocks) = 1 /\ Page.blocks[1] \in MixedLongBlocks
    /\ Len(Paragraphs) = 3
    /\ Len(Paragraphs[1].src) = 1
    /\ Len(Paragraphs[2].src) = MaxParaLines + 1

---------------------------------------------------------------------------
\* "if not para_start and prev_y1 > 0": the guard of the boundary test, as
\* the next iteration of the line loop will read it
BoundaryEvaluated == ~para_start /\ prev_y1 > 0

\* the line loop is about to process a non-empty line
AtNonEmptyLine ==
    /\ pc = "lines" /\ li <= Len(Block.lines)
    /\ LineText(Block.lines[li]) # <<>>

(* C21 -- Boundary evaluation guard, as claimed: when the line loop reaches a
   non-empty line, the guard of the boundary conditions is true exactly when
   an earlier non-empty line of the block has been processed.  The guard
   reads the bottom of the earlier line as the flag, so it is false after a
   line whose bottom is not positive: violated. *)
BoundaryGuardClaim ==
    AtNonEmptyLine =>
        (BoundaryEvaluated <=> NonEmptyFrom(bi, 1, li - 1) # <<>>)

---------------------------------------------------------------------------
\* a paragraph emitted by the forced split: it holds more texts than the cap
IsForced(e) == e.kind = "p" /\ Len(e.src) > MaxParaLines

\* the line loop stands right behind a forced split: a line of the block has
\* been processed and the in-progress paragraph is empty
JustForced == pc = "lines" /\ ~para_start /\ para_text = <<>>

\* the rendering ends the way a paragraph emitted at a boundary leaves it:
\* HTML, the paragraph element; plain text, the paragraph line and the blank
\* separator line
EndsLikeBoundary ==
    IF Html
    THEN /\ processed_text # <<>>
         /\ Last(processed_text).tag = "p"
         /\ Last(processed_text).text # <<>>
    ELSE /\ Len(text_lines) >= 2
         /\ text_lines[Len(text_lines) - 1] # <<>>
         /\ Last(text_lines) = <<>>

\* the accumulator never holds more texts than the cap between two lines
CapInvariant == pc = "lines" => Len(para_text) <= MaxParaLines

\* right behind a forced split the paragraph of cap + 1 lines has been emitted
ForcedEmitted ==
    JustForced => (emitted # <<>> /\ IsForced(Last(emitted)))

\* the forced paragraph is rendered like one emitted at a boundary
ForcedFormat == JustForced => EndsLikeBoundary

\* the non-empty line behind a forced paragraph opens the in-progress
\* paragraph with its whole text, whatever the flushed text ended in
ForcedContinues ==
    (pc = "lines" /\ emitted # <<>> /\ IsForced(Last(emitted))
        /\ Last(emitted).src[1][1] = bi) =>
        LET u == Last(Last(emitted).src)
            rest == NonEmptyFrom(bi, u[2] + 1, li - 1)
        IN rest # <<>> =>
              /\ para_src # <<>> /\ para_src[1] = rest[1]
              /\ para_text[1] = SrcText(rest[1])

(* C22 -- Hard cap on the accumulator, as claimed: between two lines the
   in-progress paragraph holds at most 100 texts; a line that makes it hold
   more has the paragraph emitted at once, rendered as a paragraph emitted at
   a boundary is, and leaves the in-progress paragraph empty; the next
   non-empty line is appended to the empty paragraph.  The plain-text path
   writes no blank separator line after the forced paragraph: violated. *)
CapAccumulatorClaim ==
    CapInvariant /\ ForcedEmitted /\ ForcedFormat /\ ForcedContinues

---------------------------------------------------------------------------
\* the segmentation the plain-text path gives a block
TextSegments(block, gap_factor, indent_threshold) ==
    LET es == TextBlocks(NoLocals(<<>>), <<block>>, 1,
                         gap_factor, indent_threshold).emitted
    IN [j \in 1..Len(es) |-> LinesOf(es[j].src)]

\* the lines of a block that end in an abbreviation and have a non-empty
\* line behind them
AbbrevLines(block) ==
    {k \in 1..Len(block.lines) :
        /\ EndsAbbrev(LineText(block.lines[k]))
        /\ \E m \in (k + 1)..Len(block.lines) : LineText(block.lines[m]) # <<>>}

\* the text blocks of the page that hold such a line
AbbrevBlocks ==
    {b \in 1..Len(Page.blocks) :
        IsTextBlock(Page.blocks[b]) /\ AbbrevLines(Page.blocks[b]) # {}}

(* C23 -- Abbreviation exception, as claimed: a block with a line that ends
   in "e.g.", "i.e." or "etc." and is followed by another line is segmented
   differently by the HTML path and by the plain-text path.  Neither path of
   the extractor has the exception: violated. *)
AbbreviationClaim ==
    Returned =>
        \A b \in AbbrevBlocks :
            Segments(Page.blocks[b], Gap, Indent)
                # TextSegments(Page.blocks[b], Gap, Indent)

(* C23, amended -- neither path treats abbreviations specially: a block with
   a line ending in "e.g.", "i.e." or "etc." is segmented alike by the HTML
   path and the plain-text path, the running call segments it that way, and
   such a line with a positive bottom that did not trigger the forced split
   is the last line of its paragraph, as after any other text ending
   in '.'. *)
AbbreviationConsistent ==
    Returned =>
        \A b \in AbbrevBlocks :
            LET block == Page.blocks[b]
                segs == Segments(block, Gap, Indent)
            IN /\ segs = TextSegments(block, Gap, Indent)
               /\ RunSegments(b) = segs
               /\ \A k \in AbbrevLines(block) :
                      block.lines[k].bbox[4] > 0 =>
                          \E j \in 1..Len(segs) : Last(segs[j]) = k

\* C23 witness: the plain-text path and the HTML path have split a block
\* behind "e.g."
AbbreviationWitness ==
    /\ Returned
    /\ Len(Page.blocks) = 1 /\ 1 \in AbbrevBlocks
    /\ Page.blocks[1].lines[1].spans = SpansEg
    /\ Len(Page.blocks[1].lines) = 2
    /\ RunSegments(1) = << <<1>>, <<2>> >>

---------------------------------------------------------------------------
CeilDiv(n, d) == IF n % d = 0 THEN n \div d ELSE n \div d + 1

\* the integers lo..hi in ascending order
Ascending(lo, hi) == [k \in 1..(hi - lo + 1) |-> lo + k - 1]

\* the writes of pages to file f, and their 1-based page numbers
FilePageWrites(f) == SelectSeq(files[f].content, IsPageWrite)
FilePages(f) ==
    LET ws == FilePageWrites(f) IN [k \in 1..Len(ws) |-> ws[k].page + 1]

\* the page containers in what was written for a page
Containers(data) == SelectSeq(data, LAMBDA e : e.tag = "div.page")

(* C24 -- HTML chunk files partition the document: when main has ended a
   conversion to HTML chunks of a document of N pages, ceil(N /
   pages_per_chunk) files exist; file f holds the writes of the pages
   (f-1)*pages_per_chunk+1 .. min(f*pages_per_chunk, N) in ascending order
   and is closed; every page has been written to exactly one file; what was
   written for a page holds one page container with the page's document-wide
   1-based number (none if the page's extraction failed); only the last file
   holds fewer than pages_per_chunk pages. *)
ChunkPartition ==
    (args.format = "html-chunks" /\ pc = "exit") =>
        LET N == Len(pdf_file)
            ppc == args.pages_per_chunk
        IN /\ Len(files) = CeilDiv(N, ppc)
           /\ \A f \in 1..Len(files) :
                  /\ FilePages(f) = Ascending((f - 1) * ppc + 1, Min(f * ppc, N))
                  /\ files[f].closed
                  /\ f < Len(files) => Len(FilePages(f)) = ppc
                  /\ \A k \in 1..Len(FilePageWrites(f)) :
                         LET w == FilePageWrites(f)[k]
                             cs == Containers(w.data)
                         IN /\ \A c \in 1..Len(cs) : cs[c].number = w.page + 1
                            /\ Len(cs) = IF w.page \in failed THEN 0 ELSE 1
           /\ \A q \in 1..N :
                  Cardinality({fk \in UNION {{<<f, k>> : k \in 1..Len(FilePages(f))} :
                                                f \in 1..Len(files)} :
                                  FilePages(fk[1])[fk[2]] = q}) = 1

\* C24 witness: three pages in files of two pages, the last file with one
\* page only
ChunkPartitionWitness ==
    /\ args.format = "html-chunks" /\ pc = "exit"
    /\ Len(pdf_file) = 3 /\ args.pages_per_chunk = 2
    /\ Len(files) = 2
    /\ FilePages(1) = <<1, 2>> /\ FilePages(2) = <<3>>
    /\ failed = {}

---------------------------------------------------------------------------
\* pdf_convert.main has ended, with exit status 0 or 1
ConverterEnded == env.program = "pdf_convert" /\ pc = "exit"

\* when the process ends the document is closed
ClosedAtExit == ConverterEnded => doc = "None"

\* a step with a document open does not open the file again: the page count
\* read at fitz.open stays, and the document is the same or closed
OpenOnlyWhenNone ==
    doc = "open" => (total_pages' = total_pages /\ doc' \in {"open", "None"})

\* a step of a converter whose document is closed, other than the first
\* _open_document of a conversion (taken at "main"), leaves it closed
CloseWhenClosed == (doc = "None" /\ pc # "main") => doc' = "None"

(* C25 -- Document handle lifecycle, as claimed: when pdf_convert.main ends,
   with status 0 or with status 1, the document is closed (doc is None); the
   file is opened only while no document is open; closing a closed converter
   changes nothing.  _close_document tests the truth value of the document,
   which is false for a document without pages, and leaves it open:
   violated. *)
DocumentLifecycleClaim ==
    []ClosedAtExit /\ [][OpenOnlyWhenNone /\ CloseWhenClosed]_vars

---------------------------------------------------------------------------
(* extract_part1.merge_paragraphs_in_sections with call_gpt4o_mini, and
   extract_part2.merge_sections_with_gpt with call_gpt_api *)

BatchSize == 15      \* merge_paragraphs_in_sections(..., batch_size=15)
MaxChunks == 17      \* chunks per content list
MaxSections == 2     \* sections given to merge_sections_with_gpt

\* every variable but part
others == <<pdf_file, args, doc, total_pages, pc, chunk_idx, i, page_num, files,
            bi, li, para_text, prev_y1, para_start, processed_text, text_lines,
            result, raised, para_src, emitted, exit_code, failed, env, message,
            fault>>

Letters == <<"a", "b", "c", "d", "e", "f", "g", "h", "i", "j", "k", "l", "m",
             "n", "o", "p", "q", "r", "s", "t", "u", "v", "w", "x", "y", "z">>

\* the k-th text chunk of a content list
Chunk(k) == <<"t", Letters[k]>>
Chunks(n) == [k \in 1..n |-> Chunk(k)]

\* list(range(n))
RangeList(n) == [k \in 1..n |-> k - 1]

\* one element of the JSON array the prompt asks for
Group(index, chunk_indices) ==
    [paragraph_index |-> index, chunk_indices |-> chunk_indices]

\* Mutant: the fallback keeps the first chunk only
FallbackFirst(text_chunks) == <<Group(0, <<0>>)>>

\* [{"paragraph_index": 0, "chunk_indices": list(range(len(text_chunks)))}]
Fallback(text_chunks) == <<Group(0, RangeList(Len(text_chunks)))>>

\* What the request and the parsers make of one answer of the API:
\* request: requests.post .. result['choices'][0]['message']['content']
\*          ("ok" or "fails": any exception);
\* direct:  json.loads(content) ("ok" or "fails": JSONDecodeError);
\* bracket: the search for "[ { .. } ]" and json.loads of the match
\*          ("none": no match, "ok", "fails");
\* fence:   the search for a json code fence and json.loads of its body;
\* value:   what the successful json.loads returns
ReplyOf(request, direct, bracket, fence, value) ==
    [request |-> request, direct |-> direct, bracket |-> bracket,
     fence |-> fence, value |-> value]

\* call_gpt4o_mini, given what the API answered
CallGpt4oMini(text_chunks, reply) ==
    IF reply.request = "fails" THEN Fallback(text_chunks)
    ELSE IF reply.direct = "ok" THEN reply.value
    ELSE IF reply.bracket # "none"
         THEN IF reply.bracket = "ok" THEN reply.value
              ELSE Fallback(text_chunks)     \* raised in the handler: outer except
    ELSE IF reply.fence # "none"
         THEN IF reply.fence = "ok" THEN reply.value
              ELSE Fallback(text_chunks)
    ELSE Fallback(text_chunks)

\* call_gpt_api of extract_part2, given what the API answered
CallGptApi(section_content, reply) ==
    IF reply.request = "fails" THEN Join(section_content) ELSE reply.value

\* some values an answer can parse to for a batch of n chunks: one group of
\* all chunks, one group per chunk, a group of the first chunk only, and a
\* group with an index behind the end of the batch
Groupings(n) ==
    {<<Group(0, RangeList(n))>>,
     [k \in 1..n |-> Group(k - 1, <<k - 1>>)],
     <<Group(0, <<0>>)>>,
     <<Group(0, <<n>>)>>}

\* batch[idx] raises IndexError for some index the answer names
IndexError(batch, paragraph_structure) ==
    \E g \in 1..Len(paragraph_structure) :
        \E m \in 1..Len(paragraph_structure[g].chunk_indices) :
            paragraph_structure[g].chunk_indices[m] >= Len(batch)

Replies(n) ==
    {ReplyOf("fails", "none", "none", "none", <<>>)}
    \cup {ReplyOf("ok", "ok", "none", "none", v) : v \in Groupings(n)}
    \cup {ReplyOf("ok", "fails", "ok", "none", v) : v \in Groupings(n)}
    \cup {ReplyOf("ok", "fails", "fails", f, <<>>) : f \in {"none", "ok"}}
    \cup {ReplyOf("ok", "fails", "none", "ok", v) : v \in Groupings(n)}
    \cup {ReplyOf("ok", "fails", "none", f, <<>>) : f \in {"fails", "none"}}

TextReplies ==
    {ReplyOf("fails", "none", "none", "none", <<>>),
     ReplyOf("ok", "none", "none", "none", <<"m", "e", "r", "g", "e", "d">>)}

\* " ".join([batch[idx] for idx in paragraph["chunk_indices"]])
MergedParagraph(batch, paragraph) ==
    Join([m \in 1..Len(paragraph.chunk_indices) |->
             batch[paragraph.chunk_indices[m] + 1]])

\* the content lists of a section in the order they are merged: its own
\* and those of its subsections
ListsOf(section) ==
    <<section.content>> \o [k \in 1..Len(section.subsections) |->
                               section.subsections[k].content]

\* the call merge_paragraphs_in_sections([section], api_key)
MergeCall(section) ==
    [fn |-> "merge_paragraphs_in_sections", lists |-> ListsOf(section),
     k |-> 1, i |-> 0, pc |-> "batch",
     out |-> [k \in 1..Len(ListsOf(section)) |-> <<>>], log |-> <<>>]

\* the call merge_sections_with_gpt(sections, api_key)
GptCall(sections) ==
    [fn |-> "merge_sections_with_gpt", sections |-> sections,
     pc |-> "section", out |-> <<>>, log |-> <<>>]

MergeCalls ==
    {MergeCall([content |-> Chunks(n),
                subsections |-> [k \in 1..m |-> [content |-> Chunks(k - 1)]]]) :
        n \in 0..MaxChunks, m \in 0..2}

GptCalls ==
    {GptCall(ss) : ss \in SeqsUpTo({[title |-> <<"2", ".", "1">>, content |-> Chunks(n)] :
                                       n \in 0..2}, MaxSections)}

\* batch = content[i:i+batch_size]
Batch(content, start) ==
    SubSeq(content, start + 1, Min(start + BatchSize, Len(content)))

\* one batch: the API is called and the paragraphs it names are appended; an
\* index outside the batch raises out of the loop
MergeBatch ==
    /\ part.fn = "merge_paragraphs_in_sections" /\ part.pc = "batch"
    /\ part.k <= Len(part.lists) /\ part.i < Len(part.lists[part.k])
    /\ LET batch == Batch(part.lists[part.k], part.i)
       IN \E reply \in Replies(Len(batch)) :
             LET paragraph_structure == CallGpt4oMini(batch, reply)
                 entry == [list |-> part.k, start |-> part.i, reply |-> reply,
                           from |-> Len(part.out[part.k]) + 1]
             IN IF IndexError(batch, paragraph_structure)
                THEN part' = [part EXCEPT !.pc = "raise",
                                          !.log = Append(@, entry)]
                ELSE part' = [part EXCEPT
                        !.out[part.k] = @ \o
                            [g \in 1..Len(paragraph_structure) |->
                                MergedParagraph(batch, paragraph_structure[g])],
                        !.i = @ + BatchSize,
                        !.log = Append(@, entry)]
    /\ UNCHANGED others

\* the batches of a content list are done (or the list is empty): the next
\* list
MergeNextList ==
    /\ part.fn = "merge_paragraphs_in_sections" /\ part.pc = "batch"
    /\ part.k <= Len(part.lists) /\ part.i >= Len(part.lists[part.k])
    /\ part' = [part EXCEPT !.k = @ + 1, !.i = 0]
    /\ UNCHANGED others

MergeReturn ==
    /\ part.fn = "merge_paragraphs_in_sections" /\ part.pc = "batch"
    /\ part.k > Len(part.lists)
    /\ part' = [part EXCEPT !.pc = "done"]
    /\ UNCHANGED others

\* merge_sections_with_gpt: one section
GptSection ==
    /\ part.fn = "merge_sections_with_gpt" /\ part.pc = "section"
    /\ Len(part.out) < Len(part.sections)
    /\ LET section == part.sections[Len(part.out) + 1]
       IN IF section.content # <<>>
          THEN \E reply \in TextReplies :
                  part' = [part EXCEPT
                      !.out = Append(@, [title |-> section.title,
                                         content |-> CallGptApi(section.content, reply)]),
                      !.log = Append(@, reply)]
          ELSE part' = [part EXCEPT
                      !.out = Append(@, [title |-> section.title, content |-> <<>>]),
                      !.log = Append(@, ReplyOf("no call", "none", "none", "none", <<>>))]
    /\ UNCHANGED others

GptReturn ==
    /\ part.fn = "merge_sections_with_gpt" /\ part.pc = "section"
    /\ Len(part.out) >= Len(part.sections)
    /\ part' = [part EXCEPT !.pc = "done"]
    /\ UNCHANGED others

InitMerge ==
    \/ StartWith({NoDocument}, {Working("extract_part1")}, MergeCalls)
    \/ StartWith({NoDocument}, {Working("extract_part2")}, GptCalls)

NextMerge ==
    \/ MergeBatch
    \/ MergeNextList
    \/ MergeReturn
    \/ GptSection
    \/ GptReturn

SpecMerge == InitMerge /\ [][NextMerge]_vars

\* the request failed, or no parser got a value out of the answer
NoAnswer(reply) ==
    \/ reply.request = "fails"
    \/ reply.direct = "fails" /\ reply.bracket # "ok" /\ reply.fence # "ok"

(* C26 -- LLM merge fallback keeps all text: a batch for which the API call
   failed or whose answer could not be parsed as JSON has added exactly one
   paragraph, the space-join of all chunks of the batch in input order, and
   the run did not stop at that batch; in merge_sections_with_gpt a section
   whose API call failed has as content the space-join of its lines. *)
MergeFallback ==
    /\ part.fn = "merge_paragraphs_in_sections" =>
          \A e \in 1..Len(part.log) :
              LET entry == part.log[e]
                  batch == Batch(part.lists[entry.list], entry.start)
                  out == part.out[entry.list]
                  next == IF e < Len(part.log) /\ part.log[e + 1].list = entry.list
                          THEN part.log[e + 1].from
                          ELSE Len(out) + 1
              IN NoAnswer(entry.reply) =>
                    /\ ~(part.pc = "raise" /\ e = Len(part.log))
                    /\ next = entry.from + 1
                    /\ out[entry.from] = Join(batch)
    /\ part.fn = "merge_sections_with_gpt" =>
          \A j \in 1..Len(part.out) :
              part.log[j].request = "fails" =>
                  part.out[j].content = Join(part.sections[j].content)

\* C26 witness: a list of two batches, the first answered by text that no
\* parser understands, the second by a JSON array; and the run returned
MergeFallbackWitness ==
    /\ part.fn = "merge_paragraphs_in_sections" /\ part.pc = "done"
    /\ Len(part.log) = 2
    /\ part.log[1].list = 1 /\ part.log[2].list = 1
    /\ part.log[1].reply = ReplyOf("ok", "fails", "none", "none", <<>>)
    /\ part.log[2].reply.direct = "ok"
    /\ Len(part.out[1]) = 2
    /\ Len(part.out[1][1]) = 3 * BatchSize - 1

---------------------------------------------------------------------------
(* extract_part1.auto_merge_text_chunks with is_article_number *)

MaxMergeChunks == 3   \* chunks given to auto_merge_text_chunks

\* the character classes of the patterns: \d, \w, \s and str.isupper
Digit == {"0", "1", "2", "3", "4", "5", "6", "7", "8", "9"}
Upper == {"A", "B", "C", "D", "E", "F", "G", "H", "I", "J", "K", "L", "M",
          "N", "O", "P", "Q", "R", "S", "T", "U", "V", "W", "X", "Y", "Z"}
Word == Digit \cup Upper \cup {Letters[k] : k \in 1..Len(Letters)} \cup {"_"}
Space == {" "}

\* the position behind the longest run of characters of a class from k on
SkipRun(t, k, class) ==
    CHOOSE m \in k..(Len(t) + 1) :
        /\ \A j \in k..(m - 1) : t[j] \in class
        /\ m = Len(t) + 1 \/ t[m] \notin class

RECURSIVE DottedNumber(_, _, _)
\* \d+(\.\d+){n-1} matched at position k: the position behind the match
\* with the longest last number, or 0 if there is no match
DottedNumber(t, k, n) ==
    LET e == SkipRun(t, k, Digit)
    IN IF k > Len(t) \/ e = k THEN 0
       ELSE IF n = 1 THEN e
       ELSE IF e <= Len(t) /\ t[e] = "." THEN DottedNumber(t, e + 1, n - 1)
       ELSE 0

RECURSIVE MoreNumbers(_, _)
\* (\.\d+)* matched at position e, as often as possible
MoreNumbers(t, e) ==
    IF e < Len(t) /\ t[e] = "." /\ t[e + 1] \in Digit
    THEN MoreNumbers(t, SkipRun(t, e + 1, Digit))
    ELSE e

Article == <<"A", "r", "t", "i", "c", "l", "e", " ">>
Section == <<"S", "e", "c", "t", "i", "o", "n", " ">>

\* is_article_number: re.match of the five patterns
is_article_number(text) ==
    \/ LET e == DottedNumber(text, 1, 4)       \* ^(\d+\.\d+\.\d+\.\d+)(\.)?$
       IN e # 0 /\ (e = Len(text) + 1 \/ (e = Len(text) /\ text[e] = "."))
    \/ /\ Len(text) >= Len(Article)            \* ^Article (\d+\.\d+\.\d+\.\d+)
       /\ SubSeq(text, 1, Len(Article)) = Article
       /\ DottedNumber(text, Len(Article) + 1, 4) # 0
    \/ /\ Len(text) >= Len(Section)            \* ^Section (\d+\.\d+\.\d+)
       /\ SubSeq(text, 1, Len(Section)) = Section
       /\ DottedNumber(text, Len(Section) + 1, 3) # 0
    \/ DottedNumber(text, 1, 4) # 0            \* ^(\d+\.\d+\.\d+\.\d+)(\.)?
    \/ DottedNumber(text, 1, 3) # 0            \* ^(\d+\.\d+\.\d+)(\.)?

\* \s+(.+)$ matched at position e: a blank and at least one more character
BlankThenText(t, e) == e >= 1 /\ e < Len(t) /\ t[e] \in Space

\* re.match(r'^(\d+\.\d+(\.\d+)*\.?)\s+(.+)$', chunk)
title_match(chunk) ==
    LET e2 == DottedNumber(chunk, 1, 2)
    IN e2 # 0 /\
       LET e == MoreNumbers(chunk, e2)
       IN \/ BlankThenText(chunk, e)
          \/ e <= Len(chunk) /\ chunk[e] = "." /\ BlankThenText(chunk, e + 1)

\* re.match(r'^(\d+\)|\w+\))\s+(.+)$', chunk)
list_item_match(chunk) ==
    LET w == SkipRun(chunk, 1, Word)
    IN w > 1 /\ w <= Len(chunk) /\ chunk[w] = ")" /\ BlankThenText(chunk, w + 1)

\* the test that starts a new paragraph behind a finished sentence
SentenceBreak(current_paragraph, chunk) ==
    /\ current_paragraph # <<>>
    /\ Last(Last(current_paragraph)) \in {".", "!", "?", ":", ";"}
    /\ ~EndsAbbrev(Last(current_paragraph))
    /\ chunk # <<>> /\ chunk[1] \in Upper

\* merged_paragraphs.append(" ".join(current_paragraph)); run: history, the
\* input positions of the chunks in current_paragraph
SaveParagraph(st) ==
    [st EXCEPT !.merged_paragraphs = Append(@, Join(st.current_paragraph)),
               !.current_paragraph = <<>>,
               !.runs = Append(@, st.run), !.run = <<>>]

SaveIfAny(st) == IF st.current_paragraph # <<>> THEN SaveParagraph(st) ELSE st

\* Mutant: a title is appended to the accumulated text
AutoMergeTitleJoined(st, chunk, k) ==
    [st EXCEPT !.current_paragraph = Append(@, chunk), !.run = Append(@, k)]

\* the loop body for chunk k (current_title is assigned and never read)
AutoMergeChunk(st, chunk, k) ==
    IF is_article_number(chunk) \/ title_match(chunk)
    THEN [SaveIfAny(st) EXCEPT !.merged_paragraphs = Append(@, chunk),
                               !.runs = Append(@, <<k>>)]
    ELSE IF list_item_match(chunk)
    THEN [SaveIfAny(st) EXCEPT !.current_paragraph = <<chunk>>, !.run = <<k>>]
    ELSE IF SentenceBreak(st.current_paragraph, chunk)
    THEN [SaveParagraph(st) EXCEPT !.current_paragraph = <<chunk>>, !.run = <<k>>]
    ELSE [st EXCEPT !.current_paragraph = Append(@, chunk), !.run = Append(@, k)]

\* the call auto_merge_text_chunks(chunks)
AutoCall(chunks) ==
    [fn |-> "auto_merge_text_chunks", chunks |-> chunks, i |-> 0, pc |-> "loop",
     merged_paragraphs |-> <<>>, current_paragraph |-> <<>>,
     runs |-> <<>>, run |-> <<>>]

ChunkKinds ==
    {<<"1", ".", "2", ".", "3">>,                                   \* article number
     Section \o <<"1", ".", "2", ".", "3">>,                        \* article number
     <<"1", ".", "2", " ", "B">>,                                   \* number and text
     <<"1", ".", "2">>,                                             \* number alone
     <<"a", ")", " ", "c">>,                                        \* list item
     <<"b", ".">>,                                                  \* sentence end
     <<"e", ".", "g", ".">>,                                        \* abbreviation
     <<"B">>,                                                       \* capital
     <<"c">>}                                                       \* plain

AutoCalls == {AutoCall(cs) : cs \in SeqsUpTo(ChunkKinds, MaxMergeChunks)}

\* "for i, chunk in enumerate(chunks)": one chunk
AutoChunk ==
    /\ part.fn = "auto_merge_text_chunks" /\ part.pc = "loop"
    /\ part.i < Len(part.chunks)
    /\ part' = [AutoMergeChunk(part, part.chunks[part.i + 1], part.i + 1)
                   EXCEPT !.i = part.i + 1]
    /\ UNCHANGED others

\* "Add the last paragraph if it exists" and return
AutoReturn ==
    /\ part.fn = "auto_merge_text_chunks" /\ part.pc = "loop"
    /\ part.i >= Len(part.chunks)
    /\ part' = [SaveIfAny(part) EXCEPT !.pc = "done"]
    /\ UNCHANGED others

InitAutoMerge == StartWith({NoDocument}, {Working("extract_part1")}, AutoCalls)

NextAutoMerge == AutoChunk \/ AutoReturn

SpecAutoMerge == InitAutoMerge /\ [][NextAutoMerge]_vars

\* a chunk recognised as a title
IsTitleChunk(chunk) == is_article_number(chunk) \/ title_match(chunk)

(* C27 -- auto_merge_text_chunks partitions its input: when the function
   returns, the paragraphs are the space-joins of runs of consecutive input
   chunks; the runs, read in order, are the chunks 1..n, each once; and every
   chunk recognised as a title (an article number, or a dotted number
   followed by text) is a run of its own. *)
AutoMergePartition ==
    (part.fn = "auto_merge_text_chunks" /\ part.pc = "done") =>
        LET n == Len(part.chunks)
            runs == part.runs
        IN /\ Len(part.merged_paragraphs) = Len(runs)
           /\ Concat(runs) = Ascending(1, n)
           /\ \A j \in 1..Len(runs) :
                  /\ runs[j] # <<>>
                  /\ part.merged_paragraphs[j]
                        = Join([m \in 1..Len(runs[j]) |-> part.chunks[runs[j][m]]])
           /\ \A k \in 1..n :
                  IsTitleChunk(part.chunks[k]) =>
                      \E j \in 1..Len(runs) :
                          runs[j] = <<k>> /\ part.merged_paragraphs[j] = part.chunks[k]

\* C27 witness: two chunks of text were joined and the title behind them
\* stands alone
AutoMergeWitness ==
    /\ part.fn = "auto_merge_text_chunks" /\ part.pc = "done"
    /\ part.runs = << <<1, 2>>, <<3>> >>
    /\ IsTitleChunk(part.chunks[3])
    /\ Len(part.merged_paragraphs[1]) = Len(part.chunks[1]) + 1 + Len(part.chunks[2])

---------------------------------------------------------------------------
(* extract_part1.process_content *)

MaxContentLines == 4   \* lines given to process_content / process_part2_content

\* re.match(r'^D(\.\d+){n}\.?$', line) for the digit D = lead
LeadDotted(line, lead, n) ==
    /\ line # <<>> /\ line[1] = lead
    /\ SkipRun(line, 1, Digit) = 2
    /\ LET e == DottedNumber(line, 1, n + 1)
       IN e # 0 /\ (e = Len(line) + 1 \/ (e = Len(line) /\ line[e] = "."))

\* re.match(r'^1(\.\d+){n}\.?$', line)
OneDotted(line, n) == LeadDotted(line, "1", n)

SectionPrefix == <<"S", "e", "c", "t", "i", "o", "n", " ", "1", ".">>

\* re.match(r'^1\.\d+\.?$', line) or line.startswith("Section 1.")
IsSectionTitle(line) == OneDotted(line, 1) \/ StartsWith(line, SectionPrefix)
\* re.match(r'^1\.\d+\.\d+\.?$', line)
IsSubsectionTitle(line) == OneDotted(line, 2)
\* re.match(r'^1\.\d+\.\d+\.\d+\.?$', line)
IsSubSubsectionTitle(line) == OneDotted(line, 3)

\* a line as the lists of the tree hold it; src: history, its input position
Entry(line, k) == [text |-> line, src |-> k]

\* sections[-1]["content"].extend(lines)
ExtendSection(sections, lines) ==
    [sections EXCEPT ![Len(sections)].content = @ \o lines]

\* sections[-1]["subsections"][-1]["content"].extend(lines)
ExtendSubsection(sections, lines) ==
    [sections EXCEPT ![Len(sections)].subsections =
        [@ EXCEPT ![Len(@)].content = @ \o lines]]

\* "Add remaining text": to the current subsection, or to the current
\* section, or nowhere; clear: the branch empties current_text afterwards
AddRemaining(st, clear) ==
    IF st.current_text = <<>> THEN st
    ELSE LET filed ==
                 IF st.has_subsection
                 THEN [st EXCEPT !.sections = ExtendSubsection(@, st.current_text)]
                 ELSE IF st.has_section
                 THEN [st EXCEPT !.sections = ExtendSection(@, st.current_text)]
                 ELSE st
         IN IF clear THEN [filed EXCEPT !.current_text = <<>>] ELSE filed

\* the loop body for line k (the "number" of a section is a function of its
\* title and is left out)
ProcessLine(st, line, k) ==
    IF IsSectionTitle(line)
    THEN LET saved == IF st.has_section THEN AddRemaining(st, TRUE) ELSE st
         IN [saved EXCEPT
                !.sections = Append(@, [title |-> Entry(line, k),
                                       subsections |-> <<>>, content |-> <<>>]),
                !.has_section = TRUE, !.has_subsection = FALSE]
    ELSE IF IsSubsectionTitle(line)
    THEN LET saved == AddRemaining(st, TRUE)
         IN IF st.has_section
            THEN [saved EXCEPT
                     !.sections[Len(st.sections)].subsections =
                         Append(@, [title |-> Entry(line, k), content |-> <<>>]),
                     !.has_subsection = TRUE]
            ELSE saved
    ELSE IF IsSubSubsectionTitle(line)
    THEN LET saved == AddRemaining(st, TRUE)
         IN IF st.has_subsection
            THEN [saved EXCEPT !.sections = ExtendSubsection(@, <<Entry(line, k)>>)]
            ELSE IF st.has_section
            THEN [saved EXCEPT !.sections = ExtendSection(@, <<Entry(line, k)>>)]
            ELSE saved
    ELSE [st EXCEPT !.current_text = Append(@, Entry(line, k))]

\* the call process_content(content)
ProcessCall(content) ==
    [fn |-> "process_content", content |-> content, i |-> 0, pc |-> "loop",
     sections |-> <<>>, has_section |-> FALSE, has_subsection |-> FALSE,
     current_text |-> <<>>]

ContentKinds ==
    {<<"1", ".", "1">>,                          \* section title
     SectionPrefix \o <<"2">>,                   \* section title
     <<"1", ".", "1", ".", "1">>,                \* subsection title
     <<"1", ".", "1", ".", "1", ".", "1", ".">>, \* sub-subsection title
     <<"x">>}                                    \* regular content

ProcessCalls == {ProcessCall(c) : c \in SeqsUpTo(ContentKinds, MaxContentLines)}

\* "for line in content": one line
ProcessStep ==
    /\ part.fn = "process_content" /\ part.pc = "loop"
    /\ part.i < Len(part.content)
    /\ part' = [ProcessLine(part, part.content[part.i + 1], part.i + 1)
                   EXCEPT !.i = part.i + 1]
    /\ UNCHANGED others

\* "Add any remaining text" and return
ProcessReturn ==
    /\ part.fn = "process_content" /\ part.pc = "loop"
    /\ part.i >= Len(part.content)
    /\ part' = [AddRemaining(part, FALSE) EXCEPT !.pc = "done"]
    /\ UNCHANGED others

InitSections == StartWith({NoDocument}, {Working("extract_part1")}, ProcessCalls)

NextSections == ProcessStep \/ ProcessReturn

SpecSections == InitSections /\ [][NextSections]_vars

\* the content lists of the returned tree, each with the input position of
\* the title it is filed under
ContentLists ==
    UNION {{[title |-> part.sections[s].title.src,
             content |-> part.sections[s].content]}
           \cup {[title |-> part.sections[s].subsections[u].title.src,
                   content |-> part.sections[s].subsections[u].content] :
                      u \in 1..Len(part.sections[s].subsections)} :
              s \in 1..Len(part.sections)}

\* where input line k is held: <<title position, position in the list>>
PlacesOf(k) ==
    UNION {{<<c.title, m>> : m \in {n \in 1..Len(c.content) : c.content[n].src = k}} :
              c \in ContentLists}

IsTitleLine(line) == IsSectionTitle(line) \/ IsSubsectionTitle(line)

\* the position of the last section or subsection title before line k, or 0
TitleBefore(k) ==
    LET ts == {j \in 1..(k - 1) : IsTitleLine(part.content[j])}
    IN IF ts = {} THEN 0 ELSE CHOOSE j \in ts : \A h \in ts : h <= j

(* C28 -- process_content loses no content, as claimed: when the function
   returns, every input line that is no section title and no subsection title
   is held exactly once in the content lists of the tree, with its own text;
   it is held by the list of the last section or subsection title before it,
   if there is one; and every content list keeps the input order.  Text in
   front of the first section title is dropped when a subsection or
   sub-subsection title follows it, and so are such titles: violated. *)
ContentKeptClaim ==
    (part.fn = "process_content" /\ part.pc = "done") =>
        /\ \A k \in 1..Len(part.content) :
               ~IsTitleLine(part.content[k]) =>
                   /\ Cardinality(PlacesOf(k)) = 1
                   /\ \A pl \in PlacesOf(k) :
                          TitleBefore(k) # 0 => pl[1] = TitleBefore(k)
        /\ \A c \in ContentLists :
               \A m \in 1..Len(c.content) :
                   /\ c.content[m].text = part.content[c.content[m].src]
                   /\ m > 1 => c.content[m - 1].src < c.content[m].src

---------------------------------------------------------------------------
(* extract_part2.process_part2_content *)

SectionWord == <<"S", "e", "c", "t", "i", "o", "n">>
PartTwo == <<"P", "a", "r", "t", " ", "2">>
Objectives == <<"O", "b", "j", "e", "c", "t", "i", "v", "e", "s">>
InitialTitle == <<"P", "a", "r", "t", " ", "2", " ", "-", " ", "O", "b", "j", "e", "c", "t", "i", "v", "e", "s">>

\* re.match(r'^Section\s+2\.\d+\.', line)
SectionTwo(line) ==
    /\ StartsWith(line, SectionWord)
    /\ LET e == SkipRun(line, Len(SectionWord) + 1, Space)
           d == SkipRun(line, e + 2, Digit)
       IN /\ e > Len(SectionWord) + 1
          /\ e + 1 <= Len(line) /\ line[e] = "2" /\ line[e + 1] = "."
          /\ d > e + 2
          /\ d <= Len(line) /\ line[d] = "."

\* line == "Part 2" or line == "Objectives"
IsSkipped(line) == line = PartTwo \/ line = Objectives

\* the tests of the two title branches
IsPart2Section(line) == LeadDotted(line, "2", 1) \/ SectionTwo(line)
IsPart2Subsection(line) == LeadDotted(line, "2", 2) \/ LeadDotted(line, "2", 3)
IsPart2Title(line) == IsPart2Section(line) \/ IsPart2Subsection(line)

\* if current_section["content"]: sections.append(current_section)
SaveSection(st) ==
    IF st.current_section.content # <<>>
    THEN [st EXCEPT !.sections = Append(@, st.current_section)]
    ELSE st

\* Mutant: a section is saved whenever the next title arrives
Part2LineSavingAll(st, line, k) ==
    IF IsSkipped(line) THEN st
    ELSE IF IsPart2Title(line)
    THEN [st EXCEPT !.sections = Append(@, st.current_section),
                    !.current_section = [title |-> Entry(line, k), content |-> <<>>]]
    ELSE [st EXCEPT !.current_section.content = Append(@, Entry(line, k))]

\* the loop body for line k
Part2Line(st, line, k) ==
    IF IsSkipped(line) THEN st
    ELSE IF IsPart2Section(line)
    THEN [SaveSection(st) EXCEPT
             !.current_section = [title |-> Entry(line, k), content |-> <<>>]]
    ELSE IF IsPart2Subsection(line)
    THEN [SaveSection(st) EXCEPT
             !.current_section = [title |-> Entry(line, k), content |-> <<>>]]
    ELSE [st EXCEPT !.current_section.content = Append(@, Entry(line, k))]

\* the call process_part2_content(content)
Part2Call(content) ==
    [fn |-> "process_part2_content", content |-> content, i |-> 0, pc |-> "loop",
     sections |-> <<>>,
     current_section |-> [title |-> Entry(InitialTitle, 0), content |-> <<>>]]

Part2Kinds ==
    {PartTwo, Objectives,
     <<"2", ".", "1">>,                          \* section title
     SectionWord \o <<" ", "2", ".", "2", ".">>, \* section title
     SectionWord \o <<" ", "2", ".", "3">>,      \* no title: no dot behind
     <<"2", ".", "1", ".", "1">>,                \* subsection title
     <<"2", ".", "1", ".", "1", ".", "1", ".">>, \* subsection title
     <<"x">>}                                    \* regular content

Part2Calls == {Part2Call(c) : c \in SeqsUpTo(Part2Kinds, MaxContentLines)}

\* "for line in content": one line
Part2Step ==
    /\ part.fn = "process_part2_content" /\ part.pc = "loop"
    /\ part.i < Len(part.content)
    /\ part' = [Part2Line(part, part.content[part.i + 1], part.i + 1)
                   EXCEPT !.i = part.i + 1]
    /\ UNCHANGED others

\* "Add the last section" and return
Part2Return ==
    /\ part.fn = "process_part2_content" /\ part.pc = "loop"
    /\ part.i >= Len(part.content)
    /\ part' = [SaveSection(part) EXCEPT !.pc = "done"]
    /\ UNCHANGED others

InitPart2 == StartWith({NoDocument}, {Working("extract_part2")}, Part2Calls)

NextPart2 == Part2Step \/ Part2Return

SpecPart2 == InitPart2 /\ [][NextPart2]_vars

Part2Returned == part.fn = "process_part2_content" /\ part.pc = "done"

\* where input line k is held: <<section, position in its content>>
Part2Places(k) ==
    UNION {{<<s, m>> : m \in {n \in 1..Len(part.sections[s].content) :
                                   part.sections[s].content[n].src = k}} :
              s \in 1..Len(part.sections)}

\* the position of the last title before line k, 0 for the initial section
Part2TitleBefore(k) ==
    LET ts == {j \in 1..(k - 1) : IsPart2Title(part.content[j])}
    IN IF ts = {} THEN 0 ELSE CHOOSE j \in ts : \A h \in ts : h <= j

(* C29 -- process_part2_content never returns an empty section: in its result
   every section has content and the title of the line that opened it (or
   'Part 2 - Objectives'); every input line that is no title and not one of
   the literals 'Part 2', 'Objectives' is held exactly once, with its text,
   by the section of the last title before it (the initial section if there
   is none); every content list keeps the input order; and a title directly
   followed by a title or by the end of the input opens no section. *)
Part2NoEmptySection ==
    Part2Returned =>
        /\ \A s \in 1..Len(part.sections) :
               LET sec == part.sections[s]
               IN /\ sec.content # <<>>
                  /\ sec.title.text = IF sec.title.src = 0 THEN InitialTitle
                                      ELSE part.content[sec.title.src]
                  /\ \A m \in 1..Len(sec.content) :
                         /\ sec.content[m].text = part.content[sec.content[m].src]
                         /\ m > 1 => sec.content[m - 1].src < sec.content[m].src
        /\ \A k \in 1..Len(part.content) :
               LET line == part.content[k]
               IN /\ (~IsPart2Title(line) /\ ~IsSkipped(line)) =>
                         /\ Cardinality(Part2Places(k)) = 1
                         /\ \A pl \in Part2Places(k) :
                                part.sections[pl[1]].title.src = Part2TitleBefore(k)
                  /\ (IsPart2Title(line) /\ (k = Len(part.content)
                                              \/ IsPart2Title(part.content[k + 1]))) =>
                         \A s \in 1..Len(part.sections) :
                             part.sections[s].title.src # k

\* Reached: text, a title followed at once by a subsection title, text: the
\* result is the initial section and the section of the second title
Part2Witness ==
    /\ Part2Returned
    /\ Len(part.content) = 4
    /\ ~IsPart2Title(part.content[1]) /\ ~IsSkipped(part.content[1])
    /\ IsPart2Section(part.content[2])
    /\ IsPart2Subsection(part.content[3])
    /\ ~IsPart2Title(part.content[4]) /\ ~IsSkipped(part.content[4])
    /\ Len(part.sections) = 2
    /\ part.sections[1].title.src = 0
    /\ part.sections[2].title.src = 3

====
